---- MODULE Spec2Model ----
(***************************************************************************)
(* Trading-engine gateway client of metacms: the CircuitBreaker object,    *)
(* the MT5ManagerService session with its retry executor                   *)
(* (src/app/services/mt5_manager.py) and the balance-operation endpoints   *)
(* with their idempotency guard (src/app/routers/balance.py)               *)
(*                                                                         *)
(* and the account stream endpoint (src/app/routers/websocket.py).         *)
(*                                                                         *)
(* The specifications share the variables:                                 *)
(*   SpecBreaker  the CircuitBreaker object driven through its methods     *)
(*   SpecGateway  one shared session used by concurrent callers            *)
(*   SpecOutage   a burst of callers against an engine that fails          *)
(*   SpecRetry    one caller's _execute_with_retry, attempt by attempt     *)
(*   SpecSession  connect(), disconnect() and health_check() callers       *)
(*   SpecBalance  balance requests, each with the session the dependency   *)
(*                get_mt5_manager constructs for it, and the table         *)
(*                balance_operations                                       *)
(*   SpecStream   subscriptions to /ws/account/{login}                     *)
(*   SpecStreamLive  the same, every stream loop keeps iterating           *)
(*   SpecClassify    get_deal_history's tagging of one engine deal         *)
(*   SpecAccumulate  the bucket totals of a list of classified deals       *)
(*   SpecDailyPnl    the daily P&L calculations over the engine's reports  *)
(*                   and deals (src/app/services/daily_pnl.py)             *)
(*   SpecPnlStore    concurrent create_or_update calls on table daily_pnl  *)
(*   SpecStatus      the status methods of BalanceRepository on its rows   *)
(*   SpecCreate      concurrent create_account calls against the engine    *)
(* A step between two awaits of a coroutine is one action: asyncio runs    *)
(* it without interleaving.                                                *)
(***************************************************************************)
EXTENDS Integers, Sequences, FiniteSets, TLC

\* ------------------------------------------------------------------ constants
FailureThreshold == 5

Timeout == 60

MaxRetries == 3

\* ------------------------------------------------------------------ bounds
MaxTicks == 3

MaxFailures == 7

NumCallers == 2

MaxCalls == 2

NumRequests == 2

MaxSubmits == 2

NumKeys == 1

NumSockets == 2

MaxSessionOps == 5

\* The longest list of classified deals that is totalled.
MaxDeals == 2

\* The most daily reports, and the most deals, the engine holds.
MaxReports == 2

MaxEngineDeals == 2

\* The create_or_update calls each writer of daily_pnl makes.
MaxWrites == 2

\* The rows of balance_operations the status methods work on.
MaxOperations == 2

\* The number of concurrent create_account calls.
NumCreators == 2

\* The failures the engine shows the creations for reasons of its own: a
\* refused Connect, a UserGetByGroup that raises, a UserAdd that fails.
MaxFaults == 2

VARIABLES
    now,        \* time.time(), seconds
    ticks,      \* number of clock advances made (bounded by MaxTicks)
    cb,         \* a CircuitBreaker object (SpecBreaker)
    cbHist,     \* history of the calls made on cb: last method, last
                \* can_execute result, failures since the last success
    sess,       \* the shared MT5ManagerService (get_mt5_service)
    call,       \* per caller of the shared session: its _execute_with_retry
    gwHist,     \* history of the shared session's remote operations
    rsess,      \* per balance request: the MT5ManagerService made for it
    rcall,      \* per balance request: its _execute_with_retry frame
    req,        \* per balance request: the handler's position and locals
    records,    \* table balance_operations
    deals,      \* the engine's ledger: the deals DealerBalance has made
    balHist,    \* history of the balance requests
    exHist,     \* history of one _execute_with_retry call (SpecRetry) and
                \* of the direct users of the session (SpecSession)
    active_connections, \* websocket.py: the registry, login -> WebSocket
    ws,         \* per WebSocket: its handler's position and the socket
    engine,     \* the engine's daily reports and deals, and whether its
                \* requests succeed
    pnlOut,     \* what the daily P&L functions have returned
    daily_pnl,  \* table daily_pnl
    writer,     \* per writer of daily_pnl: its create_or_update frame
    pnlHist,    \* history of the committed writes of daily_pnl
    users,      \* the engine's accounts: the logins in use
    acct,       \* per account request: the locals of create_account's _create
    acctHist    \* history of the account creations

clockVars == <<now, ticks>>

cbVars == <<cb, cbHist>>

gwVars == <<sess, call, gwHist>>

balVars == <<rsess, rcall, req, records, deals, balHist>>

streamVars == <<active_connections, ws>>

\* The state of the parts that a specification leaves alone.
pnlVars == <<engine, pnlOut, daily_pnl, writer, pnlHist>>

acctVars == <<users, acct, acctHist>>

extVars == <<exHist, active_connections, ws, engine, pnlOut, daily_pnl, writer, pnlHist,
             users, acct, acctHist>>

vars == <<now, ticks, cb, cbHist, sess, call, gwHist,
          rsess, rcall, req, records, deals, balHist,
          exHist, active_connections, ws,
          engine, pnlOut, daily_pnl, writer, pnlHist,
          users, acct, acctHist>>

\* --------------------------------------------------------------------- clock
\* time.time() of a process started after 1970: the first reading is
\* at least Timeout seconds after the initial last_failure_time 0.
StartTime == Timeout + 1

\* The clock advances by one second, by one cool-down, or by just under one.
TickSteps == {1, Timeout - 1, Timeout}

Tick ==
    /\ ticks < MaxTicks
    /\ \E d \in TickSteps : now' = now + d
    /\ ticks' = ticks + 1

\* ------------------------------------------------------------ CircuitBreaker
CircuitBreaker == [failure_count |-> 0, last_failure_time |-> 0, state |-> "closed"]

call_failed_off_by_one(b, t) ==
    LET n == b.failure_count + 1
    IN  [failure_count |-> n,
         last_failure_time |-> t,
         state |-> IF n > FailureThreshold THEN "open" ELSE b.state]

call_failed(b, t) ==
    LET n == b.failure_count + 1
    IN  [failure_count |-> n,
         last_failure_time |-> t,
         state |-> IF n >= FailureThreshold THEN "open" ELSE b.state]

call_succeeded_keeps_count(b) == [b EXCEPT !.state = "closed"]

call_succeeded(b) == [b EXCEPT !.failure_count = 0, !.state = "closed"]

\* can_execute returns a value and may change the state: both are given.
can_execute(b, t) ==
    IF b.state = "closed" THEN [ret |-> TRUE, cb |-> b]
    ELSE IF b.state = "open"
         THEN IF t - b.last_failure_time >= Timeout
              THEN [ret |-> TRUE, cb |-> [b EXCEPT !.state = "half_open"]]
              ELSE [ret |-> FALSE, cb |-> b]
         ELSE [ret |-> TRUE, cb |-> b]

\* ------------------------------------------------- SpecBreaker: the object
\* cbHist.op     the last method called on cb
\* cbHist.ret    what the last can_execute returned
\* cbHist.consec call_failed calls since the last call_succeeded
\* cbHist.probe  "out" from the can_execute that moved Open to HalfOpen
\*               until the next call_failed or call_succeeded, else "none"
\* cbHist.asked  can_execute calls answered TRUE since the probe went out
CbCallFailed ==
    /\ cb.failure_count < MaxFailures
    /\ cb' = call_failed(cb, now)
    /\ cbHist' = [cbHist EXCEPT !.op = "call_failed",
                                !.consec = cbHist.consec + 1,
                                !.probe = "none", !.asked = 0]
    /\ UNCHANGED clockVars
    /\ UNCHANGED gwVars
    /\ UNCHANGED balVars
    /\ UNCHANGED extVars

CbCallSucceeded ==
    /\ cb' = call_succeeded(cb)
    /\ cbHist' = [cbHist EXCEPT !.op = "call_succeeded", !.consec = 0,
                                !.probe = "none", !.asked = 0]
    /\ UNCHANGED clockVars
    /\ UNCHANGED gwVars
    /\ UNCHANGED balVars
    /\ UNCHANGED extVars

CbCanExecute ==
    LET r == can_execute(cb, now)
    IN  /\ cb' = r.cb
        /\ cbHist' = [cbHist EXCEPT
                !.op = "can_execute",
                !.ret = r.ret,
                !.probe = IF cb.state = "open" /\ r.ret THEN "out" ELSE cbHist.probe,
                !.asked = IF cbHist.probe = "out" /\ r.ret /\ cbHist.asked < 1
                          THEN cbHist.asked + 1 ELSE cbHist.asked]
        /\ UNCHANGED clockVars
        /\ UNCHANGED gwVars
        /\ UNCHANGED balVars
        /\ UNCHANGED extVars

CbTick ==
    Tick /\ UNCHANGED cbVars /\ UNCHANGED gwVars /\ UNCHANGED balVars /\ UNCHANGED extVars

InitClock == now = StartTime /\ ticks = 0

InitCb ==
    /\ cb = CircuitBreaker
    /\ cbHist = [op |-> "init", ret |-> TRUE, consec |-> 0, probe |-> "none", asked |-> 0]


\* --------------------------------------------- MT5ManagerService: the session
Free == 0

\* MT5ManagerService.__init__; lock is the holder of _lock (Free when not
\* held), waiters the coroutines queued on it, first in first out.
MT5ManagerService ==
    [connected |-> FALSE, circuit_breaker |-> CircuitBreaker,
     lock |-> Free, waiters |-> <<>>]

\* A caller's _execute_with_retry frame. pc: where the coroutine is suspended
\*   "idle"        no call made yet
\*   "waitlock"    connect(): queued on _lock
\*   "connecting"  connect(): awaiting manager.Connect in the executor
\*   "op"          awaiting func in the executor
\*   "sleep"       awaiting asyncio.sleep(2**attempt)
\*   "done"        returned the result
\*   "failed"      raised MT5Exception after the last attempt
NewCall ==
    [pc |-> "idle", attempt |-> 0, wake |-> 0, last_exception |-> "none",
     sleeps |-> 0]

Pow2(n) == 2 ^ n

\* except-block of _execute_with_retry up to its first await: a failure of
\* the last attempt records the failure and leaves the loop, any other one
\* starts the backoff sleep.
OnAttemptError_unbounded(s, k, exc, t) ==
    IF k.attempt < MaxRetries
    THEN [s |-> s,
          k |-> [k EXCEPT !.pc = "sleep", !.wake = t + Pow2(k.attempt),
                          !.last_exception = exc, !.sleeps = k.sleeps + 1]]
    ELSE [s |-> [s EXCEPT !.circuit_breaker = call_failed(s.circuit_breaker, t)],
          k |-> [k EXCEPT !.pc = "failed", !.last_exception = exc]]

OnAttemptError(s, k, exc, t) ==
    IF k.attempt < MaxRetries - 1
    THEN [s |-> s,
          k |-> [k EXCEPT !.pc = "sleep", !.wake = t + Pow2(k.attempt),
                          !.last_exception = exc, !.sleeps = k.sleeps + 1]]
    ELSE [s |-> [s EXCEPT !.circuit_breaker = call_failed(s.circuit_breaker, t)],
          k |-> [k EXCEPT !.pc = "failed", !.last_exception = exc]]

\* connect() from the point where caller c holds _lock.
EnterConnect(s, k, c, t) ==
    IF s.connected
    THEN [s |-> [s EXCEPT !.lock = Free], k |-> [k EXCEPT !.pc = "op"]]
    ELSE LET r == can_execute(s.circuit_breaker, t)
         IN  IF ~r.ret
             THEN OnAttemptError([s EXCEPT !.circuit_breaker = r.cb, !.lock = Free],
                                 k, "circuit_open", t)
             ELSE [s |-> [s EXCEPT !.circuit_breaker = r.cb, !.lock = c],
                   k |-> [k EXCEPT !.pc = "connecting"]]

\* Top of the retry loop up to the first await: run func when connected,
\* else connect(), which takes _lock at once only when nobody holds or
\* awaits it.
BeginAttempt(s, k, c, t) ==
    IF s.connected
    THEN [s |-> s, k |-> [k EXCEPT !.pc = "op"]]
    ELSE IF s.lock = Free /\ s.waiters = <<>>
         THEN EnterConnect(s, k, c, t)
         ELSE [s |-> [s EXCEPT !.waiters = Append(s.waiters, c)],
               k |-> [k EXCEPT !.pc = "waitlock"]]

\* connect() after manager.Connect has returned, then back in the retry loop.
AfterConnect(s, k, ok, t) ==
    IF ok
    THEN [s |-> [s EXCEPT !.connected = TRUE,
                          !.circuit_breaker = call_succeeded(s.circuit_breaker),
                          !.lock = Free],
          k |-> [k EXCEPT !.pc = "op"]]
    ELSE OnAttemptError([s EXCEPT
                            !.circuit_breaker = call_failed(s.circuit_breaker, t),
                            !.lock = Free],
                        k, "connect", t)

\* The retry loop after func has returned from the executor.
AfterOp(s, k, ok, t) ==
    IF ok
    THEN [s |-> [s EXCEPT !.circuit_breaker = call_succeeded(s.circuit_breaker)],
          k |-> [k EXCEPT !.pc = "done"]]
    ELSE OnAttemptError(s, k, "op", t)

\* The except-block after the backoff sleep, then the next attempt.
AfterSleep_unrecorded(s, k, c, t) ==
    BeginAttempt([s EXCEPT !.connected = FALSE],
                 [k EXCEPT !.attempt = k.attempt + 1],
                 c, t)

AfterSleep(s, k, c, t) ==
    BeginAttempt([s EXCEPT !.connected = FALSE,
                           !.circuit_breaker = call_failed(s.circuit_breaker, t)],
                 [k EXCEPT !.attempt = k.attempt + 1],
                 c, t)

\* Callers of the shared session.
Callers == 1..NumCallers

InitGw ==
    /\ sess = MT5ManagerService
    /\ call = [c \in Callers |-> NewCall]
    /\ gwHist = [calls |-> 0, opFails |-> 0, opened |-> FALSE, hotStart |-> FALSE]

\* ------------------------------------------- one call, users of the session
\* exHist, for the _execute_with_retry call in progress:
\*   attempts  iterations of the retry loop begun
\*   ops       executions of func started
\*   opFails   executions of func that raised
\*   recorded  circuit_breaker.call_failed() invocations
\*   lastErr   the error the latest failed attempt raised
\* and for the direct users of the session:
\*   nops      connect(), disconnect() and health_check() invocations
\*   unrecorded  remote calls that failed and left the breaker as it was
NewExHist ==
    [attempts |-> 0, ops |-> 0, opFails |-> 0, recorded |-> 0, lastErr |-> "none",
     nops |-> 0, unrecorded |-> 0]

InitEx == exHist = NewExHist

\* ------------------------------------------------------------ account stream
Sockets == 1..NumSockets

NoSocket == 0

\* A WebSocket and the account_realtime handler serving it. state is the
\* socket's: "connecting" before accept, "open", "closed".
\* pc: where the handler is suspended
\*   "idle"       the client has not connected yet
\*   "closing"    awaiting old_ws.close()
\*   "accepting"  awaiting websocket.accept()
\*   "verify"     awaiting repo.get_by_login
\*   "reject"     awaiting send_json and close, no account found
\*   "stream"     in the publishing loop
\*   "ended"      the handler has returned or raised
\* last is the kind of the message the loop has published last.
NewSocket ==
    [pc |-> "idle", state |-> "connecting", login |-> 0, old |-> NoSocket,
     last |-> "none"]

\* The handler has returned or raised: its locals are gone.
Ended(sk) ==
    [sk EXCEPT !.pc = "ended", !.login = 0, !.old = NoSocket, !.last = "none"]

InitWs ==
    /\ active_connections = [l \in {} |-> NoSocket]
    /\ ws = [w \in Sockets |-> NewSocket]

\* ------------------------------------------------------------- daily P&L
\* No report and no deal at the engine, nothing calculated, an empty table.
NoEngine == [reports |-> <<>>, deals |-> <<>>, report_fault |-> "none", deal_fault |-> "none"]

NoOutput == [kind |-> "none"]

Writers == {"scheduler", "sync"}

NewWriter == [pc |-> "idle", key |-> 0, found |-> 0, val |-> 0, left |-> 0]

InitPnl ==
    /\ engine = NoEngine
    /\ pnlOut = NoOutput
    /\ daily_pnl = {}
    /\ writer = [w \in Writers |-> NewWriter]
    /\ pnlHist = <<>>

\* No account at the engine and no creation requested.
InitAcct ==
    /\ users = {}
    /\ acct = <<>>
    /\ acctHist = <<>>

InitExt == InitEx /\ InitWs /\ InitPnl /\ InitAcct

\* ------------------------------------------------------- balance operations
\* Header Idempotency-Key absent (None) or empty: both are falsy in the guard.
NoKey == 0

Keys == 1..NumKeys

Requests == 1..NumRequests

\* Logins a request may name, and those with a row in mt5_accounts.
Logins == {1, 2}

Accounts == {1}

\* What a client may submit. create_operation takes a BalanceOperationCreate
\* (amount > 0); credit_operation takes a signed amount and derives the type.
CreateInputs ==
    [endpoint : {"create"}, key : {NoKey} \cup Keys, login : Logins,
     type : {"deposit"}, amount : {5}]

CreditInputs ==
    [endpoint : {"credit"}, key : {NoKey} \cup Keys, login : Logins,
     type : {"unset"}, amount : {-5, 0}]

Abs(x) == IF x < 0 THEN -x ELSE x

\* credit_operation: the type and the stored amount from the amount's sign.
CreditType(amount) ==
    IF amount > 0 THEN "credit_in" ELSE IF amount < 0 THEN "credit_out" ELSE "zero"

\* _apply: the deal DealerBalance is asked to make.
DealOf(login, op_type, amount) ==
    [login |-> login,
     action |-> IF op_type \in {"deposit", "withdrawal"} THEN "DEAL_BALANCE" ELSE "DEAL_CREDIT",
     amount |-> IF op_type \in {"withdrawal", "credit_out"} THEN -Abs(amount) ELSE Abs(amount)]

\* BalanceRepository.get_by_idempotency_key: the committed rows with the key.
get_by_idempotency_key_blind(recs, key) == {}

get_by_idempotency_key(recs, key) ==
    {rec \in recs : rec.committed /\ rec.idempotency_key = key}

\* unique=True on balance_operations.idempotency_key; NULLs never collide.
UniqueViolation_off(recs, key) == FALSE

UniqueViolation(recs, key) ==
    key # NoKey /\ \E rec \in recs : rec.committed /\ rec.idempotency_key = key

\* An INSERT waits while another transaction holds an uncommitted row with
\* the same key.
InsertBlocked(recs, key, sub) ==
    key # NoKey /\ \E rec \in recs :
        ~rec.committed /\ rec.idempotency_key = key /\ rec.sub # sub

\* What the handler leaves in the table when apply_balance_operation raises:
\* the exception propagates before repo.create, nothing is written.
RecordsAfterRemoteFailure_persists(recs, q, id) ==
    recs \cup {[id |-> id, login |-> q.login, type |-> q.type, amount |-> q.amount,
                status |-> "failed", idempotency_key |-> q.key,
                committed |-> TRUE, sub |-> q.sub]}

RecordsAfterRemoteFailure(recs, q, id) == recs

NoRecord == [id |-> 0]

NewRequest ==
    [pc |-> "idle", endpoint |-> "create", key |-> NoKey, login |-> 1,
     type |-> "deposit", amount |-> 5, sub |-> 0, existed |-> FALSE,
     retry |-> FALSE, remote |-> 0, err |-> "none", response |-> NoRecord]

\* req[r].pc: where the handler of request r is suspended
\*   "idle"    no request yet
\*   "apply"   awaiting mt5.apply_balance_operation (rcall[r] tells where)
\*   "create"  awaiting repo.create and db.commit
\*   "done"    responded with req[r].response
\*   "failed"  responded with an error, req[r].err
\* req[r].sub is the number of the submission, req[r].existed whether a
\* committed row with the key existed when it was submitted, req[r].retry
\* whether a request with the key had failed at the engine by then,
\* req[r].remote the number of apply_balance_operation calls it has made.
BalFrame ==
    UNCHANGED clockVars /\ UNCHANGED cbVars /\ UNCHANGED gwVars /\ UNCHANGED extVars

\* create_operation / credit_operation from the idempotency guard to the
\* start of apply_balance_operation: q is the request, st the state of its
\* _execute_with_retry once started on the session made for the request.
Handle(q, recs, st) ==
    LET existing == get_by_idempotency_key(recs, q.key)
    IN  IF q.type = "zero"
        THEN [q EXCEPT !.pc = "failed", !.err = "zero_amount"]
        ELSE IF q.key # NoKey /\ existing # {}
        THEN [q EXCEPT !.pc = "done", !.response = CHOOSE rec \in existing : TRUE]
        ELSE IF q.login \notin Accounts
        THEN [q EXCEPT !.pc = "failed", !.err = "not_found"]
        ELSE [q EXCEPT !.pc = "apply", !.remote = q.remote + 1]

\* A client submits a request. The handler runs to its first await on the
\* engine: the idempotency lookup and the account lookup only read, and the
\* session they lead to is the request's own.
Submit(r, in) ==
    /\ req[r].pc \in {"idle", "done", "failed"}
    /\ balHist.nsub < MaxSubmits
    /\ LET q == [NewRequest EXCEPT
                    !.endpoint = in.endpoint, !.key = in.key, !.login = in.login,
                    !.type = IF in.endpoint = "credit"
                             THEN CreditType(in.amount) ELSE in.type,
                    !.amount = Abs(in.amount),
                    !.sub = balHist.nsub + 1,
                    !.existed = \E rec \in records :
                                    rec.committed /\ rec.idempotency_key = in.key,
                    !.retry = in.key # NoKey /\ in.key \in balHist.failedKeys]
           st == BeginAttempt(MT5ManagerService, NewCall, r, now)
           h == Handle(q, records, st)
       IN  /\ req' = [req EXCEPT ![r] = h]
           /\ rsess' = [rsess EXCEPT ![r] =
                            IF h.pc = "apply" THEN st.s ELSE MT5ManagerService]
           /\ rcall' = [rcall EXCEPT ![r] = IF h.pc = "apply" THEN st.k ELSE NewCall]
    /\ balHist' = [balHist EXCEPT !.nsub = balHist.nsub + 1]
    /\ UNCHANGED <<records, deals>>
    /\ BalFrame

\* A step of the request's _execute_with_retry has led to st; when the call
\* has raised, the handler's request fails without touching the table. The
\* request's session is dropped when its call has ended.
ApplyStep(r, st) ==
    /\ rsess' = [rsess EXCEPT ![r] =
                    IF st.k.pc \in {"done", "failed"} THEN MT5ManagerService ELSE st.s]
    /\ rcall' = [rcall EXCEPT ![r] =
                    IF st.k.pc \in {"done", "failed"} THEN NewCall ELSE st.k]
    /\ IF st.k.pc = "failed"
       THEN /\ req' = [req EXCEPT ![r].pc = "failed", ![r].err = "remote"]
            /\ records' = RecordsAfterRemoteFailure(records, req[r], balHist.nextId)
            /\ balHist' = [balHist EXCEPT
                    !.failedKeys = balHist.failedKeys \cup {req[r].key}]
       ELSE /\ req' = [req EXCEPT ![r].pc = IF st.k.pc = "done" THEN "create" ELSE "apply"]
            /\ UNCHANGED <<records, balHist>>
    /\ BalFrame

RConnectReturn(r, ok) ==
    /\ req[r].pc = "apply"
    /\ rcall[r].pc = "connecting"
    /\ ApplyStep(r, AfterConnect(rsess[r], rcall[r], ok, now))
    /\ UNCHANGED deals

\* DealerBalance returns: a deal id when the engine has made the deal, False
\* when it has not.
ROpReturn(r, ok) ==
    /\ req[r].pc = "apply"
    /\ rcall[r].pc = "op"
    /\ ApplyStep(r, AfterOp(rsess[r], rcall[r], ok, now))
    /\ deals' = IF ok
                THEN deals \cup {[deal_id |-> Cardinality(deals) + 1,
                                  deal |-> DealOf(req[r].login, req[r].type, req[r].amount),
                                  key |-> req[r].key, sub |-> req[r].sub]}
                ELSE deals

RWake(r) ==
    /\ req[r].pc = "apply"
    /\ rcall[r].pc = "sleep"
    /\ now >= rcall[r].wake
    /\ ApplyStep(r, AfterSleep(rsess[r], rcall[r], r, now))
    /\ UNCHANGED deals

\* repo.create, operation.status = COMPLETED, db.commit: the row is inserted
\* and committed, unless the unique index rejects its key. A row is visible
\* to the other requests from its commit on, and an INSERT of a key that an
\* open transaction has inserted waits for that transaction, so the INSERT
\* takes effect for the others at the commit.
Create(r) ==
    /\ req[r].pc = "create"
    /\ ~InsertBlocked(records, req[r].key, req[r].sub)
    /\ IF UniqueViolation(records, req[r].key)
       THEN /\ req' = [req EXCEPT ![r].pc = "failed", ![r].err = "integrity"]
            /\ UNCHANGED <<records, balHist>>
       ELSE LET row == [id |-> balHist.nextId, login |-> req[r].login,
                        type |-> req[r].type, amount |-> req[r].amount,
                        status |-> "completed", idempotency_key |-> req[r].key,
                        committed |-> TRUE, sub |-> req[r].sub]
            IN  /\ req' = [req EXCEPT ![r].pc = "done", ![r].response = row]
                /\ records' = records \cup {row}
                /\ balHist' = [balHist EXCEPT !.nextId = balHist.nextId + 1]
    /\ UNCHANGED <<rsess, rcall, deals>>
    /\ BalFrame

\* The requests read the clock for their backoff sleeps only (a breaker
\* that opens belongs to a session whose call has ended): time is advanced
\* to the deadline of a sleep that is not yet due.
BalTick ==
    /\ ticks < MaxTicks
    /\ \E r \in Requests :
          /\ rcall[r].pc = "sleep"
          /\ now < rcall[r].wake
          /\ now' = rcall[r].wake
    /\ ticks' = ticks + 1
    /\ UNCHANGED cbVars /\ UNCHANGED gwVars /\ UNCHANGED balVars /\ UNCHANGED extVars

InitBal ==
    /\ rsess = [r \in Requests |-> MT5ManagerService]
    /\ rcall = [r \in Requests |-> NewCall]
    /\ req = [r \in Requests |-> NewRequest]
    /\ records = {}
    /\ deals = {}
    /\ balHist = [nsub |-> 0, nextId |-> 1, failedKeys |-> {}]

InitBalance == InitClock /\ InitCb /\ InitGw /\ InitBal /\ InitExt

NextBalance ==
    \/ \E r \in Requests, in \in CreateInputs \cup CreditInputs : Submit(r, in)
    \/ \E r \in Requests, ok \in BOOLEAN : RConnectReturn(r, ok)
    \/ \E r \in Requests, ok \in BOOLEAN : ROpReturn(r, ok)
    \/ \E r \in Requests : RWake(r)
    \/ \E r \in Requests : Create(r)
    \/ BalTick

SpecBalance == InitBalance /\ [][NextBalance]_vars

\* ------------------------------------------ SpecGateway: one shared session
\* gwHist.calls    calls made on the session so far (bounded by MaxCalls)
\* gwHist.opFails  failed remote operations since the last successful one
\* gwHist.opened   the breaker has been Open since the last successful
\*                 remote operation
\* gwHist.hotStart a remote call was started while the breaker was Open
\*                 and its cool-down had not elapsed
CoolingDown(b, t) == b.state = "open" /\ t - b.last_failure_time < Timeout

GwStep(c, r, h) ==
    /\ sess' = r.s
    /\ call' = [call EXCEPT ![c] = r.k]
    /\ gwHist' = [h EXCEPT
            !.opened = h.opened \/ r.s.circuit_breaker.state = "open",
            !.hotStart = h.hotStart
                \/ (/\ r.k.pc \in {"op", "connecting"}
                    /\ call[c].pc # r.k.pc
                    /\ CoolingDown(r.s.circuit_breaker, now))]
    /\ UNCHANGED clockVars
    /\ UNCHANGED cbVars
    /\ UNCHANGED balVars
    /\ UNCHANGED extVars

\* A caller invokes an operation of the session: _execute_with_retry starts.
CallWithin(c, budget) ==
    /\ call[c].pc \in {"idle", "done", "failed"}
    /\ gwHist.calls < budget
    /\ GwStep(c, BeginAttempt(sess, NewCall, c, now),
              [gwHist EXCEPT !.calls = gwHist.calls + 1])

Call(c) == CallWithin(c, MaxCalls)

\* _lock is handed to the first waiter.
LockAcquired(c) ==
    /\ call[c].pc = "waitlock"
    /\ sess.lock = Free
    /\ sess.waiters # <<>>
    /\ Head(sess.waiters) = c
    /\ GwStep(c, EnterConnect([sess EXCEPT !.waiters = Tail(sess.waiters)],
                              call[c], c, now), gwHist)

\* manager.Connect returns.
ConnectReturn(c, ok) ==
    /\ call[c].pc = "connecting"
    /\ GwStep(c, AfterConnect(sess, call[c], ok, now), gwHist)

\* func returns from the executor.
OpReturn(c, ok) ==
    /\ call[c].pc = "op"
    /\ GwStep(c, AfterOp(sess, call[c], ok, now),
              IF ok
              THEN [gwHist EXCEPT !.opFails = 0, !.opened = FALSE]
              ELSE [gwHist EXCEPT !.opFails = IF gwHist.opFails < FailureThreshold
                                              THEN gwHist.opFails + 1
                                              ELSE gwHist.opFails])

\* The backoff sleep ends: the session is marked disconnected, the failure
\* is recorded and the next attempt starts.
Wake(c) ==
    /\ call[c].pc = "sleep"
    /\ now >= call[c].wake
    /\ GwStep(c, AfterSleep(sess, call[c], c, now), gwHist)

GwTick ==
    Tick /\ UNCHANGED cbVars /\ UNCHANGED gwVars /\ UNCHANGED balVars /\ UNCHANGED extVars

InitGateway == InitClock /\ InitCb /\ InitGw /\ InitBal /\ InitExt

NextGateway ==
    \/ \E c \in Callers : Call(c)
    \/ \E c \in Callers : LockAcquired(c)
    \/ \E c \in Callers, ok \in BOOLEAN : ConnectReturn(c, ok)
    \/ \E c \in Callers, ok \in BOOLEAN : OpReturn(c, ok)
    \/ \E c \in Callers : Wake(c)
    \/ GwTick

SpecGateway == InitGateway /\ [][NextGateway]_vars

\* ------------------------- SpecOutage: the engine rejects every operation
\* A burst: as many concurrent callers as the breaker's threshold share the
\* session, calling in the order of their numbers; a caller whose call has
\* failed may call again. The engine accepts connections and fails every
\* operation, and it is slow and answers in the callers' order: an
\* operation's failure arrives once every caller has its operation submitted
\* or has already got its answer. Sleeps end in the order of their
\* deadlines (the event loop's timer heap), and the clock is read as
\* advancing only while every caller is asleep or finished.
OutageCallers == 1..FailureThreshold

OutageCall(c) ==
    /\ \/ call[c].pc = "failed"
       \/ call[c].pc = "idle" /\ \A d \in OutageCallers : d < c => call[d].pc # "idle"
    /\ CallWithin(c, FailureThreshold + 1)

OutageOpReturn(c) ==
    /\ \A d \in OutageCallers : call[d].pc \in {"op", "sleep", "failed"}
    /\ \A d \in OutageCallers : d < c => call[d].pc # "op"
    /\ OpReturn(c, FALSE)

OutageWake(c) ==
    /\ \A d \in OutageCallers :
          call[d].pc = "sleep" =>
              \/ call[d].wake > call[c].wake
              \/ call[d].wake = call[c].wake /\ d >= c
    /\ Wake(c)

OutageTick ==
    /\ \A d \in OutageCallers : call[d].pc \in {"sleep", "failed"}
    /\ GwTick

InitOutage ==
    /\ InitClock /\ InitCb /\ InitBal /\ InitExt
    /\ sess = MT5ManagerService
    /\ call = [c \in OutageCallers |-> NewCall]
    /\ gwHist = [calls |-> 0, opFails |-> 0, opened |-> FALSE, hotStart |-> FALSE]

NextOutage ==
    \/ \E c \in OutageCallers : OutageCall(c)
    \/ \E c \in OutageCallers : LockAcquired(c)
    \/ \E c \in OutageCallers : ConnectReturn(c, TRUE)
    \/ \E c \in OutageCallers : OutageOpReturn(c)
    \/ \E c \in OutageCallers : OutageWake(c)
    \/ OutageTick

SpecOutage == InitOutage /\ [][NextOutage]_vars

\* ------------------------------- SpecRetry: one call, attempt by attempt
\* One caller uses the session, so that what a call of _execute_with_retry
\* does can be counted: the attempts it makes, the executions of func, the
\* failures it records on the breaker.
RetryCaller == 1

\* What func may do: return, or raise the engine's error, "Invalid operation
\* type" (_apply with an unknown op_type) or "User not found" (_move).
OpErrors == {"op", "invalid_operation", "not_found"}

\* except Exception in _execute_with_retry: every error func raises takes
\* the same path.
AfterOpRaised(s, k, exc, t) == OnAttemptError(s, k, exc, t)

\* An attempt that starts neither manager.Connect nor func was refused by
\* the breaker in connect().
Refused(k) == k.pc \in {"sleep", "failed"}

\* call_failed() invocations of a step, read off the breaker: no step both
\* records a failure and a success.
FailuresRecorded(b, b2) ==
    IF b2.failure_count > b.failure_count THEN b2.failure_count - b.failure_count ELSE 0

RetryStep(r, h) ==
    /\ sess' = r.s
    /\ call' = [call EXCEPT ![RetryCaller] = r.k]
    /\ exHist' = [h EXCEPT
            !.recorded = h.recorded
                + FailuresRecorded(sess.circuit_breaker, r.s.circuit_breaker),
            !.ops = IF r.k.pc = "op" THEN h.ops + 1 ELSE h.ops]
    /\ UNCHANGED <<gwHist, active_connections, ws>>
    /\ UNCHANGED pnlVars
    /\ UNCHANGED acctVars
    /\ UNCHANGED clockVars
    /\ UNCHANGED cbVars
    /\ UNCHANGED balVars

RetryCall ==
    /\ call[RetryCaller].pc \in {"idle", "done", "failed"}
    /\ exHist.nops < MaxCalls
    /\ LET r == BeginAttempt(sess, NewCall, RetryCaller, now)
       IN  RetryStep(r, [NewExHist EXCEPT
                            !.attempts = 1, !.nops = exHist.nops + 1,
                            !.lastErr = IF Refused(r.k) THEN "circuit_open" ELSE "none"])

RetryConnectReturn(ok) ==
    /\ call[RetryCaller].pc = "connecting"
    /\ RetryStep(AfterConnect(sess, call[RetryCaller], ok, now),
                 [exHist EXCEPT !.lastErr = IF ok THEN exHist.lastErr ELSE "connect"])

RetryOpReturn ==
    /\ call[RetryCaller].pc = "op"
    /\ RetryStep(AfterOp(sess, call[RetryCaller], TRUE, now), exHist)

RetryOpRaise(exc) ==
    /\ call[RetryCaller].pc = "op"
    /\ RetryStep(AfterOpRaised(sess, call[RetryCaller], exc, now),
                 [exHist EXCEPT !.opFails = exHist.opFails + 1, !.lastErr = exc])

RetryWake ==
    /\ call[RetryCaller].pc = "sleep"
    /\ now >= call[RetryCaller].wake
    /\ LET r == AfterSleep(sess, call[RetryCaller], RetryCaller, now)
       IN  RetryStep(r, [exHist EXCEPT
                            !.attempts = exHist.attempts + 1,
                            !.lastErr = IF Refused(r.k) THEN "circuit_open"
                                        ELSE exHist.lastErr])

RetryTick == GwTick

InitRetry ==
    /\ InitClock /\ InitCb /\ InitBal /\ InitExt
    /\ sess = MT5ManagerService
    /\ call = [c \in {RetryCaller} |-> NewCall]
    /\ gwHist = [calls |-> 0, opFails |-> 0, opened |-> FALSE, hotStart |-> FALSE]

NextRetry ==
    \/ RetryCall
    \/ \E ok \in BOOLEAN : RetryConnectReturn(ok)
    \/ RetryOpReturn
    \/ \E exc \in OpErrors : RetryOpRaise(exc)
    \/ RetryWake
    \/ RetryTick

SpecRetry == InitRetry /\ [][NextRetry]_vars

\* ------------------- SpecSession: connect(), disconnect(), health_check()
\* Callers use the session's own methods: connect() (as get_realtime_accounts
\* and the like do before their call), disconnect() and health_check().
\* A caller's frame: kind is the method it has invoked, result what the
\* method has returned or raised, and pc where it is suspended:
\*   "waitlock"       queued on _lock
\*   "connecting"     connect(): awaiting manager.Connect in the executor
\*   "disconnecting"  disconnect(): awaiting manager.Disconnect
\*   "ping"           health_check(): awaiting _ping in the executor
\*   "idle", "done"   not in a method
SessionMethods == {"connect", "disconnect", "health_check"}

NewTask == [pc |-> "idle", kind |-> "none", result |-> "none"]

\* connect() has returned True or raised, in the frame of its caller:
\* health_check goes on to _ping after True and answers "unhealthy" to an
\* exception.
ConnectEnds(k, outcome) ==
    IF k.kind = "health_check"
    THEN IF outcome = "true"
         THEN [k EXCEPT !.pc = "ping"]
         ELSE [k EXCEPT !.pc = "done", !.result = "unhealthy"]
    ELSE [k EXCEPT !.pc = "done", !.result = outcome]

\* connect() holding _lock, up to manager.Connect.
connect_locked(s, k, c, t) ==
    IF s.connected
    THEN [s |-> [s EXCEPT !.lock = Free], k |-> ConnectEnds(k, "true")]
    ELSE LET r == can_execute(s.circuit_breaker, t)
         IN  IF ~r.ret
             THEN [s |-> [s EXCEPT !.circuit_breaker = r.cb, !.lock = Free],
                   k |-> ConnectEnds(k, "circuit_open")]
             ELSE [s |-> [s EXCEPT !.circuit_breaker = r.cb, !.lock = c],
                   k |-> [k EXCEPT !.pc = "connecting"]]

connect_returned_silent(s, k, ok, t) ==
    IF ok
    THEN [s |-> [s EXCEPT !.connected = TRUE,
                          !.circuit_breaker = call_succeeded(s.circuit_breaker),
                          !.lock = Free],
          k |-> ConnectEnds(k, "true")]
    ELSE [s |-> [s EXCEPT !.lock = Free], k |-> ConnectEnds(k, "connect_error")]

\* connect() once manager.Connect has returned.
connect_returned(s, k, ok, t) ==
    IF ok
    THEN [s |-> [s EXCEPT !.connected = TRUE,
                          !.circuit_breaker = call_succeeded(s.circuit_breaker),
                          !.lock = Free],
          k |-> ConnectEnds(k, "true")]
    ELSE [s |-> [s EXCEPT !.circuit_breaker = call_failed(s.circuit_breaker, t),
                          !.lock = Free],
          k |-> ConnectEnds(k, "connect_error")]

\* disconnect() holding _lock, up to manager.Disconnect.
disconnect_locked(s, k, c) ==
    IF ~s.connected
    THEN [s |-> [s EXCEPT !.lock = Free], k |-> [k EXCEPT !.pc = "done"]]
    ELSE [s |-> [s EXCEPT !.lock = c], k |-> [k EXCEPT !.pc = "disconnecting"]]

\* disconnect() once manager.Disconnect has returned or raised (logged).
disconnect_returned(s, k, ok) ==
    [s |-> [s EXCEPT !.connected = IF ok THEN FALSE ELSE s.connected, !.lock = Free],
     k |-> [k EXCEPT !.pc = "done"]]

\* The body of `async with self._lock` of the method the frame is in.
Locked(s, k, c, t) ==
    IF k.kind = "disconnect" THEN disconnect_locked(s, k, c) ELSE connect_locked(s, k, c, t)

WithLock_unlocked(s, k, c, t) == Locked(s, k, c, t)

\* async with self._lock: asyncio.Lock.acquire takes the lock at once only
\* when nobody holds or awaits it.
WithLock(s, k, c, t) ==
    IF s.lock = Free /\ s.waiters = <<>>
    THEN Locked(s, k, c, t)
    ELSE [s |-> [s EXCEPT !.waiters = Append(s.waiters, c)],
          k |-> [k EXCEPT !.pc = "waitlock"]]

\* A method is invoked: up to its first await.
Invoke(s, m, c, t) ==
    LET k == [NewTask EXCEPT !.kind = m]
    IN  IF m = "health_check" /\ s.connected
        THEN [s |-> s, k |-> [k EXCEPT !.pc = "ping"]]
        ELSE WithLock(s, k, c, t)

\* health_check() once _ping has returned (ok: users is not False) or raised.
ping_returned(s, k, ok) ==
    [s |-> s,
     k |-> [k EXCEPT !.pc = "done", !.result = IF ok THEN "healthy" ELSE "unhealthy"]]

SessStep(c, r, h) ==
    /\ sess' = r.s
    /\ call' = [call EXCEPT ![c] = r.k]
    /\ exHist' = h
    /\ UNCHANGED <<gwHist, active_connections, ws>>
    /\ UNCHANGED pnlVars
    /\ UNCHANGED acctVars
    /\ UNCHANGED clockVars
    /\ UNCHANGED cbVars
    /\ UNCHANGED balVars

SessInvoke(c, m) ==
    /\ call[c].pc \in {"idle", "done"}
    /\ exHist.nops < MaxSessionOps
    /\ SessStep(c, Invoke(sess, m, c, now), [exHist EXCEPT !.nops = exHist.nops + 1])

SessLockAcquired(c) ==
    /\ call[c].pc = "waitlock"
    /\ sess.lock = Free
    /\ sess.waiters # <<>>
    /\ Head(sess.waiters) = c
    /\ SessStep(c, Locked([sess EXCEPT !.waiters = Tail(sess.waiters)], call[c], c, now),
                exHist)

SessConnectReturn(c, ok) ==
    /\ call[c].pc = "connecting"
    /\ SessStep(c, connect_returned(sess, call[c], ok, now), exHist)

SessDisconnectReturn(c, ok) ==
    /\ call[c].pc = "disconnecting"
    /\ SessStep(c, disconnect_returned(sess, call[c], ok), exHist)

\* A failed remote call that leaves the breaker's failure count as it was
\* has not been recorded.
SessPingReturn(c, ok) ==
    /\ call[c].pc = "ping"
    /\ LET r == ping_returned(sess, call[c], ok)
       IN  SessStep(c, r,
                [exHist EXCEPT !.unrecorded =
                    IF ~ok /\ FailuresRecorded(sess.circuit_breaker, r.s.circuit_breaker) = 0
                    THEN 1 ELSE exHist.unrecorded])

SessTick == GwTick

InitSession ==
    /\ InitClock /\ InitCb /\ InitBal /\ InitExt
    /\ sess = MT5ManagerService
    /\ call = [c \in Callers |-> NewTask]
    /\ gwHist = [calls |-> 0, opFails |-> 0, opened |-> FALSE, hotStart |-> FALSE]

NextSession ==
    \/ \E c \in Callers, m \in SessionMethods : SessInvoke(c, m)
    \/ \E c \in Callers : SessLockAcquired(c)
    \/ \E c \in Callers, ok \in BOOLEAN : SessConnectReturn(c, ok)
    \/ \E c \in Callers, ok \in BOOLEAN : SessDisconnectReturn(c, ok)
    \/ \E c \in Callers, ok \in BOOLEAN : SessPingReturn(c, ok)
    \/ SessTick

SpecSession == InitSession /\ [][NextSession]_vars

\* ------------------------------ SpecStream: /ws/account/{login} handlers
\* active_connections[login] = websocket
Register(ac, login, w) ==
    [l \in DOMAIN ac \cup {login} |-> IF l = login THEN w ELSE ac[l]]

\* del active_connections[login]
Unregister(ac, login) == [l \in DOMAIN ac \ {login} |-> ac[l]]

StreamFrame ==
    /\ UNCHANGED clockVars
    /\ UNCHANGED cbVars
    /\ UNCHANGED gwVars
    /\ UNCHANGED balVars
    /\ UNCHANGED exHist
    /\ UNCHANGED pnlVars
    /\ UNCHANGED acctVars

\* A client connects: the handler looks the login up in the registry and,
\* finding a socket, starts closing it.
Subscribe(w, login) ==
    /\ ws[w].pc = "idle"
    /\ ws' = [ws EXCEPT ![w] =
                IF login \in DOMAIN active_connections
                THEN [@ EXCEPT !.pc = "closing", !.login = login,
                               !.old = active_connections[login]]
                ELSE [@ EXCEPT !.pc = "accepting", !.login = login]]
    /\ UNCHANGED active_connections
    /\ StreamFrame

OldClosed_skipped(w) ==
    /\ ws[w].pc = "closing"
    /\ ws' = [ws EXCEPT ![w].pc = "accepting"]
    /\ UNCHANGED active_connections
    /\ StreamFrame

\* old_ws.close() has returned, or raised on a socket already closed.
OldClosed(w) ==
    /\ ws[w].pc = "closing"
    /\ ws' = [ws EXCEPT ![ws[w].old].state = "closed", ![w].pc = "accepting"]
    /\ UNCHANGED active_connections
    /\ StreamFrame

\* websocket.accept() has returned and the socket is registered, or it has
\* raised because the client is gone.
Accepted(w, ok) ==
    /\ ws[w].pc = "accepting"
    /\ IF ok
       THEN /\ ws' = [ws EXCEPT ![w].state = "open", ![w].pc = "verify"]
            /\ active_connections' = Register(active_connections, ws[w].login, w)
       ELSE /\ ws' = [ws EXCEPT ![w] = Ended([@ EXCEPT !.state = "closed"])]
            /\ UNCHANGED active_connections
    /\ StreamFrame

\* repo.get_by_login has returned. Without an account the handler sends an
\* error and closes the socket; on a socket that is closed already
\* send_json raises and ends the handler.
Verified(w) ==
    /\ ws[w].pc = "verify"
    /\ ws' = [ws EXCEPT ![w] =
                IF ws[w].login \in Accounts THEN [@ EXCEPT !.pc = "stream"]
                ELSE IF ws[w].state = "open" THEN [@ EXCEPT !.pc = "reject"]
                ELSE Ended(@)]
    /\ UNCHANGED active_connections
    /\ StreamFrame

\* The error is sent and the socket closed: the handler deletes the login's
\* registry entry, whichever socket it records, and returns.
Rejected(w) ==
    /\ ws[w].pc = "reject"
    /\ ws' = [ws EXCEPT ![w] = Ended([@ EXCEPT !.state = "closed"])]
    /\ active_connections' = Unregister(active_connections, ws[w].login)
    /\ StreamFrame

loop_iteration_fatal(sk, fetched) ==
    IF sk.state = "open" /\ fetched
    THEN [sk EXCEPT !.last = "update"]
    ELSE [sk EXCEPT !.pc = "ended", !.last = IF sk.state = "open" THEN "error" ELSE sk.last]

\* An iteration of the publishing loop. With the two fetches done the
\* update is sent; when a fetch has raised, the error message is sent
\* instead; the loop goes on either way. On a closed socket send_json
\* raises, in the handler of the error again, and the loop is left.
loop_iteration(sk, fetched) ==
    IF sk.state = "open"
    THEN [sk EXCEPT !.last = IF fetched THEN "update" ELSE "error"]
    ELSE Ended(sk)

finally_keeps_entry(ac, login, w) == ac

\* The finally-block removes the registry entry if it is this socket's.
finally(ac, login, w) ==
    IF login \in DOMAIN ac /\ ac[login] = w THEN Unregister(ac, login) ELSE ac

\* An iteration of the loop and, when it leaves the loop, the handler's end.
SendUpdate(w, fetched) ==
    /\ ws[w].pc = "stream"
    /\ LET sk == loop_iteration(ws[w], fetched)
       IN  /\ ws' = [ws EXCEPT ![w] = sk]
           /\ active_connections' =
                    IF sk.pc = "ended"
                    THEN finally(active_connections, ws[w].login, w)
                    ELSE active_connections
    /\ StreamFrame

\* The client closes its end.
ClientGone(w) ==
    /\ ws[w].pc \in {"verify", "stream"}
    /\ ws[w].state = "open"
    /\ ws' = [ws EXCEPT ![w].state = "closed"]
    /\ UNCHANGED active_connections
    /\ StreamFrame

InitStream == InitClock /\ InitCb /\ InitGw /\ InitBal /\ InitExt

NextStream ==
    \/ \E w \in Sockets, login \in Logins : Subscribe(w, login)
    \/ \E w \in Sockets : OldClosed(w)
    \/ \E w \in Sockets, ok \in BOOLEAN : Accepted(w, ok)
    \/ \E w \in Sockets : Verified(w)
    \/ \E w \in Sockets : Rejected(w)
    \/ \E w \in Sockets, fetched \in BOOLEAN : SendUpdate(w, fetched)
    \/ \E w \in Sockets : ClientGone(w)

SpecStream == InitStream /\ [][NextStream]_vars

\* The loop of a handler runs an iteration every half second for as long as
\* the handler is in it.
SpecStreamLive ==
    SpecStream /\ \A w \in Sockets : WF_vars(\E fetched \in BOOLEAN : SendUpdate(w, fetched))

\* -------------------------------------------- daily P&L: get_deal_history
\* Amounts are in cents. A comment is the sequence of its characters.
\* The parts that the daily P&L specifications leave alone.
PnlFrame == UNCHANGED <<clockVars, cbVars, gwVars, balVars, exHist, streamVars, acctVars>>

LowerCase == <<"a", "b", "c", "d", "e", "f", "g", "h", "i", "j", "k", "l", "m",
               "n", "o", "p", "q", "r", "s", "t", "u", "v", "w", "x", "y", "z">>

UpperCase == <<"A", "B", "C", "D", "E", "F", "G", "H", "I", "J", "K", "L", "M",
               "N", "O", "P", "Q", "R", "S", "T", "U", "V", "W", "X", "Y", "Z">>

\* str.upper(): a lower-case letter becomes its capital, the rest stays.
upper(s) ==
    [i \in 1..Len(s) |->
        IF \E n \in 1..26 : LowerCase[n] = s[i]
        THEN UpperCase[CHOOSE n \in 1..26 : LowerCase[n] = s[i]]
        ELSE s[i]]

startswith(s, prefix) ==
    /\ Len(s) >= Len(prefix)
    /\ SubSeq(s, 1, Len(prefix)) = prefix

\* The action codes of the balance operations: balance, credit, charge,
\* correction.
BalanceActions == {2, 3, 4, 6}

action_map(action_code, amount) ==
    CASE action_code = 2 -> IF amount > 0 THEN "DEPOSIT" ELSE "WITHDRAWAL"
      [] action_code = 3 -> IF amount > 0 THEN "CREDIT" ELSE "CREDIT_OUT"
      [] action_code = 4 -> "CHARGE"
      [] action_code = 6 -> "CORRECTION"
      [] OTHER -> "UNKNOWN"

\* The tag with no default for the deals without a prefix.
tag_without_default(comment, action_code) ==
    LET comment_upper == upper(comment) IN
    IF startswith(comment_upper, <<"D", "T">>) THEN "Deposit"
    ELSE IF startswith(comment_upper, <<"W", "T">>) THEN "Withdrawal"
    ELSE IF startswith(comment_upper, <<"R", "E", "B">>) THEN "Rebate"
    ELSE IF startswith(comment_upper, <<"P", "R", "O">>) THEN "Promotion"
    ELSE ""

\* The tag without the upper-casing of the comment.
tag_case_sensitive(comment, action_code) ==
    IF startswith(comment, <<"D", "T">>) THEN "Deposit"
    ELSE IF startswith(comment, <<"W", "T">>) THEN "Withdrawal"
    ELSE IF startswith(comment, <<"R", "E", "B">>) THEN "Rebate"
    ELSE IF startswith(comment, <<"P", "R", "O">>) THEN "Promotion"
    ELSE IF action_code = 3 THEN ""
    ELSE IF action_code \in {2, 4, 6} THEN "Promotion"
    ELSE ""

\* The tag of a deal: by the prefix of its comment, and by its action code
\* when no prefix matches.
tag(comment, action_code) ==
    LET comment_upper == upper(comment) IN
    IF startswith(comment_upper, <<"D", "T">>) THEN "Deposit"
    ELSE IF startswith(comment_upper, <<"W", "T">>) THEN "Withdrawal"
    ELSE IF startswith(comment_upper, <<"R", "E", "B">>) THEN "Rebate"
    ELSE IF startswith(comment_upper, <<"P", "R", "O">>) THEN "Promotion"
    ELSE IF action_code = 3 THEN ""
    ELSE IF action_code \in {2, 4, 6} THEN "Promotion"
    ELSE ""

\* Mt5DealHistory, the fields the calculation reads.
Mt5DealHistory(deal) ==
    [login |-> deal.Login,
     action |-> action_map(deal.Action, deal.Profit),
     amount |-> deal.Profit,
     tag |-> tag(deal.Comment, deal.Action)]

\* _get_deals on the deals the engine returned: the balance operations,
\* classified.
get_deals(found) ==
    LET kept == SelectSeq(found, LAMBDA deal : deal.Action \in BalanceActions)
    IN [i \in 1..Len(kept) |-> Mt5DealHistory(kept[i])]

\* ------------------------------- SpecClassify: one engine deal, classified
ClassifyComments ==
    { <<>>,
      <<"D", "T", "-", "b", "o", "n", "u", "s">>,
      <<"w", "t", "1", "2", "3">>,
      <<"R", "E", "B", " ", "Q", "3">>,
      <<"p", "r", "o">>,
      <<"d", "T">>,
      <<"W", "t", "D", "T">>,
      <<"r", "E", "b", "a", "t", "e">>,
      <<"P", "R", "O", "M", "O">>,
      <<"D">>,
      <<"R", "E">>,
      <<"x", "D", "T">>,
      <<" ", "W", "T">>,
      <<"b", "o", "n", "u", "s">> }

ClassifyAmounts == {-5000, 0, 1250, 3000, 10000}

\* Action code 0 is a buy, 5 a bonus: not balance operations.
ClassifyDeals ==
    [Login : {1}, Action : BalanceActions \cup {0, 5},
     Profit : ClassifyAmounts, Comment : ClassifyComments]

GetDealHistory ==
    /\ pnlOut.kind = "none"
    /\ pnlOut' = [kind |-> "history", deals |-> get_deals(engine.deals)]
    /\ UNCHANGED <<engine, daily_pnl, writer, pnlHist>>
    /\ PnlFrame

InitClassify ==
    /\ InitClock /\ InitCb /\ InitGw /\ InitBal /\ InitEx /\ InitWs /\ InitAcct
    /\ \E deal \in ClassifyDeals : engine = [NoEngine EXCEPT !.deals = <<deal>>]
    /\ pnlOut = NoOutput
    /\ daily_pnl = {}
    /\ writer = [w \in Writers |-> NewWriter]
    /\ pnlHist = <<>>

NextClassify == GetDealHistory

SpecClassify == InitClassify /\ [][NextClassify]_vars

\* --------------------------------- daily P&L: the buckets of a day's deals
NoBuckets ==
    [deposit |-> 0, withdrawal |-> 0, net_deposit |-> 0,
     promotion |-> 0, net_credit_promotion |-> 0, rebate |-> 0]

\* One iteration of the loop over deal_history, with a promotion taken at
\* its absolute value whatever its sign.
add_deal_abs_promotion(b, deal) ==
    IF deal.tag = "Deposit"
    THEN [b EXCEPT !.deposit = @ + Abs(deal.amount), !.net_deposit = @ + deal.amount]
    ELSE IF deal.tag = "Withdrawal"
    THEN [b EXCEPT !.withdrawal = @ + Abs(deal.amount), !.net_deposit = @ + deal.amount]
    ELSE IF deal.tag = "Rebate"
    THEN [b EXCEPT !.rebate = @ + deal.amount, !.net_credit_promotion = @ + deal.amount]
    ELSE IF deal.tag = "Promotion"
    THEN [b EXCEPT !.promotion = @ + Abs(deal.amount),
                   !.net_credit_promotion = @ + deal.amount]
    ELSE IF deal.action \in {"DEPOSIT", "WITHDRAWAL"}
    THEN [b EXCEPT !.net_deposit = @ + deal.amount]
    ELSE IF deal.action \in {"CREDIT", "CREDIT_OUT", "CHARGE", "CORRECTION"}
    THEN [b EXCEPT !.net_credit_promotion = @ + deal.amount]
    ELSE b

\* One iteration of the loop over deal_history.
add_deal(b, deal) ==
    IF deal.tag = "Deposit"
    THEN [b EXCEPT !.deposit = @ + Abs(deal.amount), !.net_deposit = @ + deal.amount]
    ELSE IF deal.tag = "Withdrawal"
    THEN [b EXCEPT !.withdrawal = @ + Abs(deal.amount), !.net_deposit = @ + deal.amount]
    ELSE IF deal.tag = "Rebate"
    THEN [b EXCEPT !.rebate = @ + deal.amount, !.net_credit_promotion = @ + deal.amount]
    ELSE IF deal.tag = "Promotion"
    THEN [b EXCEPT !.promotion = @ + (IF deal.amount > 0 THEN Abs(deal.amount) ELSE 0),
                   !.net_credit_promotion = @ + deal.amount]
    ELSE IF deal.action \in {"DEPOSIT", "WITHDRAWAL"}
    THEN [b EXCEPT !.net_deposit = @ + deal.amount]
    ELSE IF deal.action \in {"CREDIT", "CREDIT_OUT", "CHARGE", "CORRECTION"}
    THEN [b EXCEPT !.net_credit_promotion = @ + deal.amount]
    ELSE b

\* The loop over deal_history, from the zeroed totals.
accumulate(deal_history) ==
    LET after[i \in 0..Len(deal_history)] ==
            IF i = 0 THEN NoBuckets ELSE add_deal(after[i - 1], deal_history[i])
    IN after[Len(deal_history)]

\* --------------------- SpecAccumulate: a list of classified deals, totalled
Tags == {"Deposit", "Withdrawal", "Rebate", "Promotion", ""}

AccumulateAmounts == {-5000, 2000, 50000}

\* Mt5DealHistory records of one account: any tag with any action.
ClassifiedDeals ==
    { [login |-> 1, action |-> action_map(code, amount), amount |-> amount, tag |-> t] :
        t \in Tags, code \in BalanceActions, amount \in AccumulateAmounts }

DealLists == UNION { [1..n -> ClassifiedDeals] : n \in 0..MaxDeals }

Accumulate ==
    /\ pnlOut.kind = "history"
    /\ pnlOut' = [kind |-> "buckets", deals |-> pnlOut.deals,
                  buckets |-> accumulate(pnlOut.deals)]
    /\ UNCHANGED <<engine, daily_pnl, writer, pnlHist>>
    /\ PnlFrame

InitAccumulate ==
    /\ InitClock /\ InitCb /\ InitGw /\ InitBal /\ InitEx /\ InitWs /\ InitAcct
    /\ engine = NoEngine
    /\ \E deal_history \in DealLists : pnlOut = [kind |-> "history", deals |-> deal_history]
    /\ daily_pnl = {}
    /\ writer = [w \in Writers |-> NewWriter]
    /\ pnlHist = <<>>

NextAccumulate == Accumulate

SpecAccumulate == InitAccumulate /\ [][NextAccumulate]_vars

\* ------------------------------------------- daily P&L: the calculations
\* login=None: the request is for all accounts.
NoLogin == 0

\* The day the P&L is calculated for, and the day before it.
TargetDate == 2

PrevDate == TargetDate - 1

\* What a method of the session gives its caller: a list, or the exception
\* that _execute_with_retry raises when the request itself raises.
Returned(list) == [raised |-> FALSE, value |-> list]

RaisedError == [raised |-> TRUE, value |-> <<>>]

\* The reports of the days PrevDate..TargetDate, of one login or of all. A
\* request the engine answers with False gives an empty list.
get_daily_reports(e, login) ==
    IF e.report_fault = "raise" THEN RaisedError
    ELSE IF e.report_fault = "false" THEN Returned(<<>>)
    ELSE Returned(SelectSeq(e.reports, LAMBDA report :
                     /\ login = NoLogin \/ report.login = login
                     /\ report.date \in PrevDate..TargetDate))

\* The classified balance operations of TargetDate, of one login or of
\* all. A request the engine answers with False gives an empty list.
get_deal_history(e, login) ==
    IF e.deal_fault = "raise" THEN RaisedError
    ELSE IF e.deal_fault = "false" THEN Returned(<<>>)
    ELSE Returned(get_deals(SelectSeq(e.deals, LAMBDA deal :
                     login = NoLogin \/ deal.Login = login)))

\* The record without the deduction of the IB commissions.
Mt5DailyPnL_without_ib(login, report, b) ==
    LET equity_pnl == report.present_equity - report.equity_prev_day
                        - b.net_deposit - b.net_credit_promotion
    IN [login |-> login, date |-> TargetDate,
        present_equity |-> report.present_equity,
        equity_prev_day |-> report.equity_prev_day,
        deposit |-> b.deposit, withdrawal |-> b.withdrawal,
        net_deposit |-> b.net_deposit, credit |-> 0,
        promotion |-> b.promotion,
        net_credit_promotion |-> b.net_credit_promotion,
        total_ib |-> report.daily_agent, rebate |-> b.rebate,
        equity_pnl |-> equity_pnl, net_pnl |-> equity_pnl - b.promotion,
        group |-> report.group, currency |-> report.currency]

\* Steps 3 to 5 and the record returned, from the report of the day and the
\* totals of the deals; calculate_all_logins_pnl repeats them per login.
Mt5DailyPnL(login, report, b) ==
    LET total_ib == report.daily_agent
        equity_pnl == report.present_equity - report.equity_prev_day
                        - b.net_deposit - b.net_credit_promotion - total_ib
        net_pnl == equity_pnl - b.promotion
    IN [login |-> login, date |-> TargetDate,
        present_equity |-> report.present_equity,
        equity_prev_day |-> report.equity_prev_day,
        deposit |-> b.deposit, withdrawal |-> b.withdrawal,
        net_deposit |-> b.net_deposit, credit |-> 0,
        promotion |-> b.promotion,
        net_credit_promotion |-> b.net_credit_promotion,
        total_ib |-> total_ib, rebate |-> b.rebate,
        equity_pnl |-> equity_pnl, net_pnl |-> net_pnl,
        group |-> report.group, currency |-> report.currency]

Pending == [kind |-> "pending"]

NotFound == [kind |-> "none"]

Failed == [kind |-> "error"]

\* The record of one login: of the first report of TargetDate in the list.
calculate_daily_pnl(e, login) ==
    LET daily_reports == get_daily_reports(e, login)
        on_target == SelectSeq(daily_reports.value, LAMBDA report : report.date = TargetDate)
        deal_history == get_deal_history(e, login)
    IN IF daily_reports.raised THEN Failed
       ELSE IF daily_reports.value = <<>> THEN NotFound
       ELSE IF on_target = <<>> THEN NotFound
       ELSE IF deal_history.raised THEN Failed
       ELSE [kind |-> "pnl",
             pnl |-> Mt5DailyPnL(login, on_target[1], accumulate(deal_history.value))]

\* The records of all logins: reports_by_login keeps, in the order the
\* logins first appear, the last report of TargetDate of each.
calculate_all_logins_pnl(e) ==
    LET daily_reports == get_daily_reports(e, NoLogin)
        on_target == SelectSeq(daily_reports.value, LAMBDA report : report.date = TargetDate)
        keys[i \in 0..Len(on_target)] ==
            IF i = 0 THEN <<>>
            ELSE IF \E j \in 1..(i - 1) : on_target[j].login = on_target[i].login
                 THEN keys[i - 1]
                 ELSE Append(keys[i - 1], on_target[i].login)
        logins == keys[Len(on_target)]
        reports_by_login(login) ==
            LET last == CHOOSE i \in 1..Len(on_target) :
                            /\ on_target[i].login = login
                            /\ \A j \in (i + 1)..Len(on_target) : on_target[j].login # login
            IN on_target[last]
        deal_history == get_deal_history(e, NoLogin)
        login_deals(login) == SelectSeq(deal_history.value, LAMBDA deal : deal.login = login)
    IN IF daily_reports.raised THEN Failed
       ELSE IF daily_reports.value = <<>> THEN [kind |-> "list", list |-> <<>>]
       ELSE IF deal_history.raised THEN Failed
       ELSE [kind |-> "list",
             list |-> [k \in 1..Len(logins) |->
                         Mt5DailyPnL(logins[k], reports_by_login(logins[k]),
                                     accumulate(login_deals(logins[k])))]]

\* sum(pnl.field for pnl in pnl_list)
total(pnl_list, field) ==
    LET S[i \in 0..Len(pnl_list)] == IF i = 0 THEN 0 ELSE S[i - 1] + pnl_list[i][field]
    IN S[Len(pnl_list)]

aggregate_institution_pnl(pnl_list) ==
    IF pnl_list = <<>>
    THEN [login |-> 0, date |-> TargetDate, present_equity |-> 0, equity_prev_day |-> 0,
          deposit |-> 0, withdrawal |-> 0, net_deposit |-> 0, credit |-> 0,
          promotion |-> 0, net_credit_promotion |-> 0, total_ib |-> 0, rebate |-> 0,
          equity_pnl |-> 0, net_pnl |-> 0, group |-> "ALL", currency |-> "USD"]
    ELSE [login |-> 0, date |-> TargetDate,
          present_equity |-> total(pnl_list, "present_equity"),
          equity_prev_day |-> total(pnl_list, "equity_prev_day"),
          deposit |-> total(pnl_list, "deposit"),
          withdrawal |-> total(pnl_list, "withdrawal"),
          net_deposit |-> total(pnl_list, "net_deposit"),
          credit |-> 0,
          promotion |-> total(pnl_list, "promotion"),
          net_credit_promotion |-> total(pnl_list, "net_credit_promotion"),
          total_ib |-> total(pnl_list, "total_ib"),
          rebate |-> total(pnl_list, "rebate"),
          equity_pnl |-> total(pnl_list, "equity_pnl"),
          net_pnl |-> total(pnl_list, "net_pnl"),
          group |-> "ALL", currency |-> "USD"]

\* ---------------- SpecDailyPnl: the calculations over one state of the engine
\* Daily reports the engine may hold: two of login 1 for TargetDate that
\* differ, one of login 1 for the day before, one of login 2.
EngineReports ==
    { [login |-> 1, date |-> TargetDate, present_equity |-> 1050000,
       equity_prev_day |-> 1000000, daily_agent |-> 500, group |-> "real", currency |-> "USD"],
      [login |-> 1, date |-> TargetDate, present_equity |-> 900000,
       equity_prev_day |-> 1000000, daily_agent |-> 0, group |-> "real", currency |-> "USD"],
      [login |-> 1, date |-> PrevDate, present_equity |-> 1000000,
       equity_prev_day |-> 990000, daily_agent |-> 0, group |-> "real", currency |-> "USD"],
      [login |-> 2, date |-> TargetDate, present_equity |-> 200000,
       equity_prev_day |-> 200000, daily_agent |-> 100, group |-> "real", currency |-> "EUR"] }

\* Deals of TargetDate the engine may hold; action 0 is a trade, and the
\* last deal takes money out under a comment that begins with DT.
EngineDeals ==
    { [Login |-> 1, Action |-> 2, Profit |-> 50000, Comment |-> <<"D", "T">>],
      [Login |-> 1, Action |-> 3, Profit |-> 2000, Comment |-> <<"R", "E", "B">>],
      [Login |-> 1, Action |-> 2, Profit |-> -5000, Comment |-> <<"w", "t">>],
      [Login |-> 1, Action |-> 2, Profit |-> 3000, Comment |-> <<>>],
      [Login |-> 2, Action |-> 3, Profit |-> 3000, Comment |-> <<>>],
      [Login |-> 2, Action |-> 0, Profit |-> 7000, Comment |-> <<>>],
      [Login |-> 1, Action |-> 2, Profit |-> -5000, Comment |-> <<"D", "T">>] }

\* The engine answers a request, answers it with False, or the request raises.
Faults == {"none", "false", "raise"}

Engines ==
    [reports : UNION { [1..n -> EngineReports] : n \in 0..MaxReports },
     deals : UNION { [1..n -> EngineDeals] : n \in 0..MaxEngineDeals },
     report_fault : Faults, deal_fault : Faults]

CalculateDaily(login) ==
    /\ pnlOut.kind = "calculations"
    /\ pnlOut.daily[login] = Pending
    /\ pnlOut' = [pnlOut EXCEPT !.daily[login] = calculate_daily_pnl(engine, login)]
    /\ UNCHANGED <<engine, daily_pnl, writer, pnlHist>>
    /\ PnlFrame

CalculateAll ==
    /\ pnlOut.kind = "calculations"
    /\ pnlOut.all = Pending
    /\ pnlOut' = [pnlOut EXCEPT !.all = calculate_all_logins_pnl(engine)]
    /\ UNCHANGED <<engine, daily_pnl, writer, pnlHist>>
    /\ PnlFrame

\* The scheduler job and the sync endpoint aggregate the list that
\* calculate_all_logins_pnl returned.
AggregateInstitution ==
    /\ pnlOut.kind = "calculations"
    /\ pnlOut.all.kind = "list"
    /\ pnlOut.institution = Pending
    /\ pnlOut' = [pnlOut EXCEPT !.institution =
                    [kind |-> "pnl", pnl |-> aggregate_institution_pnl(pnlOut.all.list)]]
    /\ UNCHANGED <<engine, daily_pnl, writer, pnlHist>>
    /\ PnlFrame

InitDailyPnl ==
    /\ InitClock /\ InitCb /\ InitGw /\ InitBal /\ InitEx /\ InitWs /\ InitAcct
    /\ engine \in Engines
    /\ pnlOut = [kind |-> "calculations", daily |-> [l \in Logins |-> Pending],
                 all |-> Pending, institution |-> Pending]
    /\ daily_pnl = {}
    /\ writer = [w \in Writers |-> NewWriter]
    /\ pnlHist = <<>>

NextDailyPnl ==
    \/ \E login \in Logins : CalculateDaily(login)
    \/ CalculateAll
    \/ AggregateInstitution

SpecDailyPnl == InitDailyPnl /\ [][NextDailyPnl]_vars

\* --------------------------- SpecPnlStore: create_or_update on daily_pnl
\* The (day, login) keys written: the institution and one account on one day.
StoreKeys == {1, 2}

\* The metrics of a write, told apart by one number.
StoreValues == {10, 20}

\* The rows the SELECT of create_or_update finds for a key.
select_where(table, key) == {row \in table : row.key = key}

\* `await self.db.execute(stmt)`: the database runs the SELECT of the
\* writer's session; scalar_one_or_none() raises when it finds several rows
\* and the call ends without a write.
Select(w, key, val) ==
    /\ writer[w].pc = "idle"
    /\ writer[w].left > 0
    /\ LET rows == select_where(daily_pnl, key) IN
        writer' = [writer EXCEPT ![w] =
            IF Cardinality(rows) > 1
            THEN [@ EXCEPT !.left = @ - 1]
            ELSE [@ EXCEPT !.pc = "selected", !.key = key, !.val = val,
                           !.found = IF rows = {} THEN 0 ELSE (CHOOSE row \in rows : TRUE).id]]
    /\ UNCHANGED <<engine, pnlOut, daily_pnl, pnlHist>>
    /\ PnlFrame

\* The table after `await self.db.commit()`: the record found is updated,
\* or a new record is inserted.
commit(table, k) ==
    IF k.found # 0
    THEN {IF row.id = k.found THEN [row EXCEPT !.val = k.val] ELSE row : row \in table}
    ELSE table \cup {[id |-> Cardinality(table) + 1, key |-> k.key, val |-> k.val]}

Commit(w) ==
    /\ writer[w].pc = "selected"
    /\ daily_pnl' = commit(daily_pnl, writer[w])
    /\ pnlHist' = [pnlHist EXCEPT ![writer[w].key] = writer[w].val]
    /\ writer' = [writer EXCEPT ![w] = [NewWriter EXCEPT !.left = writer[w].left - 1]]
    /\ UNCHANGED <<engine, pnlOut>>
    /\ PnlFrame

InitPnlStore ==
    /\ InitClock /\ InitCb /\ InitGw /\ InitBal /\ InitEx /\ InitWs /\ InitAcct
    /\ engine = NoEngine
    /\ pnlOut = NoOutput
    /\ daily_pnl = {}
    /\ writer = [w \in Writers |-> [NewWriter EXCEPT !.left = MaxWrites]]
    /\ pnlHist = [key \in StoreKeys |-> 0]

NextPnlStore ==
    \/ \E w \in Writers, key \in StoreKeys, val \in StoreValues : Select(w, key, val)
    \/ \E w \in Writers : Commit(w)

SpecPnlStore == InitPnlStore /\ [][NextPnlStore]_vars

\* ------------------ SpecStatus: the status methods of BalanceRepository
\* Rows of balance_operations as one session holds them, with the fields
\* the status methods read and write.
OperationIds == 1..MaxOperations

Approvers == {7}

Messages == {"rejected by dealer", "engine error"}

\* BalanceRepository.get_by_id
get_by_id(recs, operation_id) == {rec \in recs : rec.id = operation_id}

\* The table with the row of the id replaced.
update(recs, operation) ==
    {IF rec.id = operation.id THEN operation ELSE rec : rec \in recs}

approve(recs, operation_id, approved_by) ==
    LET found == get_by_id(recs, operation_id)
        operation == CHOOSE rec \in found : TRUE
    IN IF found # {} /\ operation.status = "pending"
       THEN update(recs, [operation EXCEPT !.status = "approved",
                                           !.approved_by = approved_by])
       ELSE recs

complete(recs, operation_id) ==
    LET found == get_by_id(recs, operation_id)
        operation == CHOOSE rec \in found : TRUE
    IN IF found # {} /\ operation.status \in {"pending", "approved"}
       THEN update(recs, [operation EXCEPT !.status = "completed"])
       ELSE recs

fail(recs, operation_id, error_message) ==
    LET found == get_by_id(recs, operation_id)
        operation == CHOOSE rec \in found : TRUE
    IN IF found # {}
       THEN update(recs, [operation EXCEPT !.status = "failed",
                                           !.error_message = error_message])
       ELSE recs

reject(recs, operation_id, approved_by, reason) ==
    LET found == get_by_id(recs, operation_id)
        operation == CHOOSE rec \in found : TRUE
    IN IF found # {} /\ operation.status = "pending"
       THEN update(recs, [operation EXCEPT !.status = "rejected",
                                           !.approved_by = approved_by,
                                           !.error_message = reason])
       ELSE recs

StatusFrame ==
    /\ UNCHANGED <<rsess, rcall, req, deals>>
    /\ UNCHANGED clockVars /\ UNCHANGED cbVars /\ UNCHANGED gwVars /\ UNCHANGED extVars

\* BalanceRepository.create: a new row, pending.
RepoCreate ==
    /\ balHist.nextId \in OperationIds
    /\ records' = records \cup {[id |-> balHist.nextId, status |-> "pending",
                                 approved_by |-> 0, error_message |-> "none"]}
    /\ balHist' = [balHist EXCEPT !.nextId = balHist.nextId + 1]
    /\ StatusFrame

RepoApprove(operation_id, approved_by) ==
    /\ records' = approve(records, operation_id, approved_by)
    /\ UNCHANGED balHist
    /\ StatusFrame

RepoComplete(operation_id) ==
    /\ records' = complete(records, operation_id)
    /\ UNCHANGED balHist
    /\ StatusFrame

RepoFail(operation_id, error_message) ==
    /\ records' = fail(records, operation_id, error_message)
    /\ UNCHANGED balHist
    /\ StatusFrame

RepoReject(operation_id, approved_by, reason) ==
    /\ records' = reject(records, operation_id, approved_by, reason)
    /\ UNCHANGED balHist
    /\ StatusFrame

InitStatus == InitClock /\ InitCb /\ InitGw /\ InitBal /\ InitExt

NextStatus ==
    \/ RepoCreate
    \/ \E id \in OperationIds, by \in Approvers : RepoApprove(id, by)
    \/ \E id \in OperationIds : RepoComplete(id)
    \/ \E id \in OperationIds, msg \in Messages : RepoFail(id, msg)
    \/ \E id \in OperationIds, by \in Approvers, msg \in Messages : RepoReject(id, by, msg)

SpecStatus == InitStatus /\ [][NextStatus]_vars

\* ------------------------------------- SpecCreate: concurrent create_account
\* Each creation runs on the session deps.get_mt5_manager builds for its
\* request. acct[c] holds that session (self), the frame of its
\* _execute_with_retry (k), the locals of _create, and a record of the call:
\*   stage          where _create stands in the executor thread: "scan"
\*                  before UserGetByGroup, "add" before UserAdd
\*   all_users      what UserGetByGroup returned ({} when it raised)
\*   scan_attempt   the attempt in which all_users was read
\*   taken          rejections of a requested login that was in use
\*   taken_at       the attempt of the last such rejection
\*   pending_taken  no scan was made since that rejection
Creators == 1..NumCreators

NoUser == 0

NewCreate ==
    [pc |-> "idle", self |-> MT5ManagerService, k |-> NewCall,
     stage |-> "none", all_users |-> {}, max_login |-> 0, login |-> NoUser,
     scan_attempt |-> -1, taken |-> 0, taken_at |-> -1, pending_taken |-> FALSE]

max(S) == CHOOSE x \in S : \A y \in S : y <= x

\* user.Login = max_login + 1
user_login_reused(max_login) == max_login

user_login(max_login) == max_login + 1

\* The logins the engine may give an account added without a login: any
\* one not in use.
AutoLogins(us) == {l \in 1..(IF us = {} THEN 1 ELSE max(us) + 1) : l \notin us}

CreateFrame ==
    /\ UNCHANGED cbVars /\ UNCHANGED gwVars /\ UNCHANGED balVars
    /\ UNCHANGED <<exHist, active_connections, ws>>
    /\ UNCHANGED pnlVars

\* The creation's frame after a step of its _execute_with_retry: between
\* the attempts _create is not running, and an attempt that reaches the
\* executor starts _create from its first line.
\* When the call has ended the request's session is dropped and the frame
\* keeps the outcome, the number of its last attempt and the returned login.
CreateStep(c, a, st) ==
    acct' = [acct EXCEPT ![c] =
                IF st.k.pc \in {"done", "failed"}
                THEN [NewCreate EXCEPT
                         !.pc = st.k.pc,
                         !.k = [NewCall EXCEPT !.pc = st.k.pc, !.attempt = st.k.attempt],
                         !.login = IF st.k.pc = "done" THEN a.login ELSE NoUser,
                         !.taken = a.taken, !.taken_at = a.taken_at,
                         !.pending_taken = a.pending_taken]
                ELSE [a EXCEPT !.self = st.s, !.k = st.k, !.pc = "run",
                               !.stage = IF st.k.pc = "op" THEN "scan" ELSE "none"]]

\* create_account up to its first await.
CreateAccount(c) ==
    /\ acct[c].pc = "idle"
    /\ CreateStep(c, acct[c], BeginAttempt(acct[c].self, acct[c].k, c, now))
    /\ acctHist' = [acctHist EXCEPT !.calls = acctHist.calls + 1]
    /\ UNCHANGED <<clockVars, users>>
    /\ CreateFrame

\* An engine failure is one of the MaxFaults.
Fault(ok) ==
    IF ok THEN acctHist
    ELSE [acctHist EXCEPT !.faults = acctHist.faults + 1]

CConnectReturn(c, ok) ==
    /\ acct[c].pc = "run"
    /\ acct[c].k.pc = "connecting"
    /\ ok \/ acctHist.faults < MaxFaults
    /\ CreateStep(c, acct[c], AfterConnect(acct[c].self, acct[c].k, ok, now))
    /\ acctHist' = Fault(ok)
    /\ UNCHANGED <<clockVars, users>>
    /\ CreateFrame

\* _create from its first line to the call of UserAdd: UserGetByGroup("*")
\* returns the engine's accounts or raises, then user.Login is set.
Scan(c, ok) ==
    /\ acct[c].pc = "run"
    /\ acct[c].k.pc = "op"
    /\ acct[c].stage = "scan"
    /\ ok \/ acctHist.faults < MaxFaults
    /\ acctHist' = Fault(ok)
    /\ LET all_users == IF ok THEN users ELSE {}
           max_login == IF all_users # {} THEN max(all_users) ELSE 0
       IN  acct' = [acct EXCEPT ![c] =
                       [@ EXCEPT !.stage = "add", !.all_users = all_users,
                                 !.max_login = max_login,
                                 !.login = IF max_login > 0 THEN user_login(max_login)
                                                            ELSE NoUser,
                                 !.scan_attempt = acct[c].k.attempt,
                                 !.pending_taken = FALSE]]
    /\ UNCHANGED <<clockVars, users>>
    /\ CreateFrame

\* UserAdd returns, then _create and the retry loop up to the next await.
\* The engine refuses a login in use, gives an account without a login one
\* of AutoLogins, and may fail for a reason of its own (ok = FALSE).
UserAdd(c, ok, auto) ==
    /\ acct[c].pc = "run"
    /\ acct[c].k.pc = "op"
    /\ acct[c].stage = "add"
    /\ ok \/ (acctHist.faults < MaxFaults /\ acct[c].login \notin users)
    /\ LET a == acct[c]
           in_use == a.login # NoUser /\ a.login \in users
           added == ok /\ ~in_use
           login == IF a.login = NoUser THEN auto ELSE a.login
           b == IF added THEN [a EXCEPT !.login = login]
                ELSE IF in_use
                THEN [a EXCEPT !.taken = a.taken + 1, !.taken_at = a.k.attempt,
                               !.pending_taken = TRUE]
                ELSE a
       IN  /\ CreateStep(c, b, AfterOp(a.self, a.k, added, now))
           /\ users' = IF added THEN users \cup {login} ELSE users
           /\ acctHist' = IF added
                          THEN [acctHist EXCEPT !.returned = Append(acctHist.returned, login)]
                          ELSE Fault(ok)
    /\ UNCHANGED clockVars
    /\ CreateFrame

CWake(c) ==
    /\ acct[c].pc = "run"
    /\ acct[c].k.pc = "sleep"
    /\ now >= acct[c].k.wake
    /\ CreateStep(c, acct[c], AfterSleep(acct[c].self, acct[c].k, c, now))
    /\ UNCHANGED <<clockVars, users, acctHist>>
    /\ CreateFrame

\* Time is advanced to the deadline of a backoff sleep that is not yet due.
CreateTick ==
    /\ ticks < MaxTicks
    /\ \E c \in Creators :
          /\ acct[c].pc = "run"
          /\ acct[c].k.pc = "sleep"
          /\ now < acct[c].k.wake
          /\ now' = acct[c].k.wake
    /\ ticks' = ticks + 1
    /\ UNCHANGED acctVars
    /\ CreateFrame

InitCreate ==
    /\ InitClock /\ InitCb /\ InitGw /\ InitBal /\ InitEx /\ InitWs /\ InitPnl
    /\ users \in {{}, {2}}
    /\ acct = [c \in Creators |-> NewCreate]
    /\ acctHist = [calls |-> 0, faults |-> 0, returned |-> <<>>]

NextCreate ==
    \/ \E c \in Creators : CreateAccount(c)
    \/ \E c \in Creators, ok \in BOOLEAN : CConnectReturn(c, ok)
    \/ \E c \in Creators, ok \in BOOLEAN : Scan(c, ok)
    \/ \E c \in Creators, ok \in BOOLEAN, auto \in AutoLogins(users) : UserAdd(c, ok, auto)
    \/ \E c \in Creators : CWake(c)
    \/ CreateTick

SpecCreate == InitCreate /\ [][NextCreate]_vars

\* ------------------------------------------------------------ SpecBreaker
InitBreaker == InitClock /\ InitCb /\ InitGw /\ InitBal /\ InitExt

NextBreaker == CbCallFailed \/ CbCallSucceeded \/ CbCanExecute \/ CbTick

SpecBreaker == InitBreaker /\ [][NextBreaker]_vars

\* ------------------------------------------ claims on the balance operations
\* C1: a balance operation submitted with a non-empty idempotency key for
\* which a committed record exists makes no call of apply_balance_operation
\* and no deal, and responds with that record, as an earlier submission
\* created it.
C1_ReplayReturnsRecord ==
    \A r \in Requests :
        (/\ req[r].pc # "idle"
         /\ req[r].key # NoKey
         /\ req[r].type # "zero"
         /\ req[r].existed)
        => /\ req[r].pc = "done"
           /\ req[r].remote = 0
           /\ \A d \in deals : d.sub # req[r].sub
           /\ \E rec \in records :
                /\ rec.idempotency_key = req[r].key
                /\ rec.sub < req[r].sub
                /\ req[r].response = rec

C1_Witness ==
    \E r \in Requests :
        /\ req[r].existed
        /\ req[r].key # NoKey
        /\ req[r].pc = "done"
        /\ req[r].response.id # 0
        /\ req[r].response.type # req[r].type

\* C2: for every idempotency key the engine has made at most one deal, over
\* all interleavings of the requests that carry the key.
C2_AtMostOneDealPerKey ==
    \A k \in Keys : Cardinality({d \in deals : d.key = k}) <= 1

\* C3: a request whose remote mutation has failed ends with an error and
\* leaves no record (every record stems from a deal the engine has made); a
\* later request with the same key, finding no record, calls the remote
\* mutation again.
C3_FailureLeavesNoRecord ==
    /\ \A r \in Requests :
          req[r].err = "remote"
          => /\ req[r].pc = "failed"
             /\ \A rec \in records : rec.sub # req[r].sub
    /\ \A rec \in records : \E d \in deals : d.sub = rec.sub
    /\ \A r \in Requests :
          (/\ req[r].retry
           /\ ~req[r].existed
           /\ req[r].type # "zero"
           /\ req[r].login \in Accounts)
          => req[r].remote = 1

C3_Witness ==
    \E r \in Requests :
        /\ req[r].retry
        /\ ~req[r].existed
        /\ req[r].remote = 1
        /\ req[r].pc = "done"
        /\ records # {}

\* C4: at most one record exists per non-null idempotency key.
C4_OneRecordPerKey ==
    \A k \in Keys : Cardinality({rec \in records : rec.idempotency_key = k}) <= 1

C4_Witness ==
    \E r \in Requests :
        /\ req[r].err = "integrity"
        /\ \E rec \in records : rec.idempotency_key = req[r].key

\* ------------------------------------------------ claims on the breaker object
\* C5: after N >= failure_threshold consecutive call_failed (no call_succeeded
\* in between) can_execute returns false, from right after the Nth failure
\* and for as long as the cool-down has not elapsed since the last failure.
C5_OpenUntilCoolDown ==
    (cbHist.consec >= FailureThreshold /\ now - cb.last_failure_time < Timeout)
        => /\ ~can_execute(cb, now).ret
           /\ (cbHist.op = "can_execute" => ~cbHist.ret)

C5_Witness ==
    /\ cbHist.consec > FailureThreshold
    /\ cbHist.op = "can_execute"
    /\ ~cbHist.ret
    /\ now > cb.last_failure_time

\* C6: the transition relation of the breaker. Open is entered exactly by a
\* recorded failure that brings failure_count to the threshold or above;
\* HalfOpen is entered only from Open, by can_execute, once the cool-down has
\* elapsed; a recorded success yields Closed with failure_count 0; Closed is
\* entered only by a recorded success.
C6_TransitionRelation ==
    [][ /\ (cb'.state = "open" /\ cb.state # "open")
            => (CbCallFailed /\ cb'.failure_count >= FailureThreshold)
        /\ CbCallFailed
            => (cb'.state = "open" <=> cb'.failure_count >= FailureThreshold)
        /\ (cb'.state = "half_open" /\ cb.state # "half_open")
            => (CbCanExecute /\ cb.state = "open"
                /\ now - cb.last_failure_time >= Timeout)
        /\ (CbCanExecute /\ cb.state = "open")
            => (cb'.state = "half_open" <=> now - cb.last_failure_time >= Timeout)
        /\ CbCallSucceeded
            => (cb'.state = "closed" /\ cb'.failure_count = 0)
        /\ (cb'.state = "closed" /\ cb.state # "closed") => CbCallSucceeded
      ]_vars

C6_Witness ==
    /\ cb.state = "half_open"
    /\ cbHist.probe = "out"
    /\ cbHist.consec > FailureThreshold

\* C7: once can_execute has let the probe through (Open to HalfOpen), no
\* further can_execute returns true before the probe's success or failure
\* has been recorded.
C7_SingleProbe == cbHist.asked = 0

\* ------------------------------------------------ claims on the shared session
\* C8: while the breaker is Open and its cool-down has not elapsed, no caller
\* of the session starts a remote call (manager.Connect or an operation),
\* whether or not the session is marked connected.
C8_NoCallWhileOpen == ~gwHist.hotStart

\* C9: an attempt that the breaker refuses ends the call at once with the
\* circuit-open error: no backoff sleep and no further attempt follows it.
C9_RefusalIsFinal ==
    \A c \in DOMAIN call :
        call[c].last_exception = "circuit_open" => call[c].pc = "failed"

\* C10: FailureThreshold consecutive failed remote operations with no
\* successful remote operation in between, all of them recorded, have
\* opened the breaker.
C10_FailureRunOpens ==
    (/\ gwHist.opFails >= FailureThreshold
     /\ \A c \in DOMAIN call : call[c].pc # "sleep")
        => gwHist.opened

\* ------------------------------------------------- claims on the retry loop
\* C11: a call whose func has raised on its first two attempts and returned
\* on the third returns that third attempt's result, having slept twice
\* and recorded two failures on the breaker.
C11_TwoFailuresThenSuccess ==
    (/\ exHist.attempts = 3
     /\ exHist.ops = 3
     /\ exHist.opFails = 2
     /\ call[RetryCaller].pc \in {"done", "failed"})
        => /\ call[RetryCaller].pc = "done"
           /\ call[RetryCaller].attempt = 2
           /\ call[RetryCaller].sleeps = 2
           /\ exHist.recorded = 2

C11_Witness ==
    /\ exHist.attempts = 3
    /\ exHist.ops = 3
    /\ exHist.opFails = 2
    /\ call[RetryCaller].pc = "done"
    /\ call[RetryCaller].sleeps = 2
    /\ exHist.recorded = 2

\* C12: a call never begins more than max_retries attempts; a call that has
\* raised has made exactly max_retries attempts, func having run max_retries
\* times when it was func that failed each time, and the error it raises
\* carries the error of its last attempt.
C12_BudgetExhausted ==
    /\ exHist.attempts <= MaxRetries
    /\ call[RetryCaller].pc = "failed"
        => /\ exHist.attempts = MaxRetries
           /\ call[RetryCaller].last_exception # "none"
           /\ call[RetryCaller].last_exception = exHist.lastErr
           /\ (exHist.opFails = exHist.attempts => exHist.ops = MaxRetries)

C12_Witness ==
    /\ call[RetryCaller].pc = "failed"
    /\ exHist.opFails = MaxRetries
    /\ exHist.ops = MaxRetries
    /\ call[RetryCaller].last_exception = "op"

\* C13: an attempt on which func raises "invalid operation" or "user not
\* found" ends the call: one attempt, no backoff sleep.
C13_DeterministicErrorsNotRetried ==
    exHist.lastErr \in {"invalid_operation", "not_found"}
        => /\ call[RetryCaller].pc = "failed"
           /\ exHist.attempts = 1
           /\ call[RetryCaller].sleeps = 0

\* C15: after a failed remote call the session is marked disconnected once
\* the failure has been handled, the failure of a call's last attempt
\* included.
C15_FailureDisconnects ==
    (/\ call[RetryCaller].pc = "failed"
     /\ exHist.lastErr \in OpErrors)
        => ~sess.connected

\* C14: while a caller's remote call is executing (func in the executor),
\* the session is marked connected, over all interleavings of the callers
\* that share the session.
C14_CallOnlyWhileConnected ==
    \A c \in DOMAIN call : call[c].pc = "op" => sess.connected

\* ---------------------------------- claims on connect() and the session
\* C16: at most one connect or disconnect transition (manager.Connect,
\* manager.Disconnect) is in flight at a time, its caller holding _lock, and
\* manager.Connect is in flight only while the session is not connected: a
\* connect() that finds the session connected returns without it.
C16_ConnectExclusive ==
    /\ Cardinality({c \in DOMAIN call : call[c].pc \in {"connecting", "disconnecting"}}) <= 1
    /\ \A c \in DOMAIN call :
          /\ call[c].pc \in {"connecting", "disconnecting"} => sess.lock = c
          /\ call[c].pc = "connecting" => ~sess.connected
          /\ call[c].pc = "disconnecting" => sess.connected

C16_Witness ==
    \E c, d \in DOMAIN call :
        /\ call[c].pc = "disconnecting"
        /\ call[d].pc = "waitlock"
        /\ call[d].kind = "connect"

\* C17: a connect() whose manager.Connect has failed records one failure on
\* the breaker, leaves the session not connected and raises the connection
\* error to its caller. (A connect() that the breaker refuses makes no
\* attempt to establish the session.)
C17_ConnectFailureRecorded ==
    [][ \A c \in Callers :
            SessConnectReturn(c, FALSE)
            => /\ sess'.circuit_breaker.failure_count
                    = sess.circuit_breaker.failure_count + 1
               /\ ~sess'.connected
               /\ sess'.lock = Free
               /\ call[c].kind = "connect"
                    => (call'[c].pc = "done" /\ call'[c].result = "connect_error")
      ]_vars

C17_Witness ==
    \E c \in DOMAIN call :
        /\ call[c].kind = "connect"
        /\ call[c].pc = "done"
        /\ call[c].result = "connect_error"
        /\ sess.circuit_breaker.failure_count > 0
        /\ sess.circuit_breaker.last_failure_time = now
        /\ ~sess.connected

\* C19: every remote call made on the session has its outcome recorded on
\* the breaker: none fails and leaves the breaker as it was.
C19_EveryRemoteCallRecorded == exHist.unrecorded = 0

\* C18: the callers of the engine operate on one session: the breaker that
\* one request's call records its failures on is the breaker every other
\* request's call consults, and one connection lock serves them all.
C18_OneSessionPerProcess ==
    \A r1, r2 \in Requests :
        (req[r1].pc = "apply" /\ req[r2].pc = "apply")
        => /\ rsess[r1].circuit_breaker = rsess[r2].circuit_breaker
           /\ rsess[r1].lock # Free /\ rsess[r2].lock # Free
                => rsess[r1].lock = rsess[r2].lock

\* ------------------------------------------------- claims on the streams
\* C20: every stream that can still publish for a login (its handler is in
\* the loop and its socket is open) is the socket the registry records for
\* the login, so that at most one stream per login is live.
C20_OneLiveStreamPerLogin ==
    \A w \in Sockets :
        (ws[w].pc = "stream" /\ ws[w].state = "open")
        => /\ ws[w].login \in DOMAIN active_connections
           /\ active_connections[ws[w].login] = w

\* C21: a subscription that found a stream registered for its login has
\* closed that stream's socket before its own socket is accepted, registered
\* or published on.
C21_EvictionBeforeAccept ==
    \A w \in Sockets :
        (ws[w].old # NoSocket /\ ws[w].pc \notin {"idle", "closing"})
        => ws[ws[w].old].state = "closed"

C21_Witness ==
    \E w \in Sockets :
        /\ ws[w].old # NoSocket
        /\ ws[w].pc = "stream"
        /\ ws[w].state = "open"
        /\ ws[w].last = "update"
        /\ ws[ws[w].old].pc = "stream"
        /\ ws[ws[w].old].state = "closed"
        /\ active_connections[ws[w].login] = w

C29_ClassifierRules ==
    (pnlOut.kind = "history" /\ engine.deals[1].Action \in BalanceActions) =>
        LET deal == engine.deals[1]
            c == deal.Comment
            starts(P) == \E p \in P : Len(c) >= Len(p) /\ SubSeq(c, 1, Len(p)) = p
            DT == {<<a, b>> : a \in {"D", "d"}, b \in {"T", "t"}}
            WT == {<<a, b>> : a \in {"W", "w"}, b \in {"T", "t"}}
            REB == {<<a, b, e>> : a \in {"R", "r"}, b \in {"E", "e"}, e \in {"B", "b"}}
            PRO == {<<a, b, e>> : a \in {"P", "p"}, b \in {"R", "r"}, e \in {"O", "o"}}
            expected == IF starts(DT) THEN "Deposit"
                        ELSE IF starts(WT) THEN "Withdrawal"
                        ELSE IF starts(REB) THEN "Rebate"
                        ELSE IF starts(PRO) THEN "Promotion"
                        ELSE IF deal.Action = 3 THEN ""
                        ELSE "Promotion"
            is(comment, code, amount) ==
                deal.Comment = comment /\ deal.Action = code /\ deal.Profit = amount
            got == pnlOut.deals[1].tag
        IN /\ Len(pnlOut.deals) = 1
           /\ got = expected
           /\ is(<<"D", "T", "-", "b", "o", "n", "u", "s">>, 2, 10000) => got = "Deposit"
           /\ is(<<"w", "t", "1", "2", "3">>, 2, -5000) => got = "Withdrawal"
           /\ is(<<"R", "E", "B", " ", "Q", "3">>, 3, 1250) => got = "Rebate"
           /\ is(<<>>, 2, 3000) => got = "Promotion"
           /\ is(<<>>, 3, 3000) => got = ""

\* The deal ("wt123", balance, -50) has been classified, as a Withdrawal.
C29_Witness ==
    /\ pnlOut.kind = "history"
    /\ engine.deals[1].Comment = <<"w", "t", "1", "2", "3">>
    /\ engine.deals[1].Action = 2
    /\ engine.deals[1].Profit = -5000
    /\ pnlOut.deals[1].tag = "Withdrawal"

\* C24: the record of one account and date has equity_pnl = present_equity
\* - equity_prev_day - net_deposit - net_credit_promotion - total_ib and
\* net_pnl = equity_pnl - promotion; for a report with present_equity 10500
\* and equity_prev_day 10000, one Deposit of +500, one Rebate of +20 and
\* total_ib 5 it has net_deposit 500, net_credit_promotion 20, promotion 0,
\* equity_pnl -25 and net_pnl -25 (the engine answering both requests).
C24_EquityAndNetPnl ==
    \A login \in Logins :
        pnlOut.kind = "calculations" /\ pnlOut.daily[login].kind = "pnl" =>
            LET p == pnlOut.daily[login].pnl
                scenario ==
                    /\ login = 1
                    /\ engine.report_fault = "none" /\ engine.deal_fault = "none"
                    /\ Len(engine.reports) = 1
                    /\ engine.reports[1].login = 1
                    /\ engine.reports[1].date = TargetDate
                    /\ engine.reports[1].present_equity = 1050000
                    /\ engine.reports[1].equity_prev_day = 1000000
                    /\ engine.reports[1].daily_agent = 500
                    /\ Len(engine.deals) = 2
                    /\ \E i, j \in 1..2 :
                        /\ engine.deals[i] = [Login |-> 1, Action |-> 2, Profit |-> 50000,
                                              Comment |-> <<"D", "T">>]
                        /\ engine.deals[j] = [Login |-> 1, Action |-> 3, Profit |-> 2000,
                                              Comment |-> <<"R", "E", "B">>]
            IN /\ p.equity_pnl = p.present_equity - p.equity_prev_day - p.net_deposit
                                   - p.net_credit_promotion - p.total_ib
               /\ p.net_pnl = p.equity_pnl - p.promotion
               /\ scenario =>
                    /\ p.net_deposit = 50000
                    /\ p.net_credit_promotion = 2000
                    /\ p.promotion = 0
                    /\ p.total_ib = 500
                    /\ p.equity_pnl = -2500
                    /\ p.net_pnl = -2500

\* The record of the scenario has been calculated.
C24_Witness ==
    /\ pnlOut.kind = "calculations"
    /\ pnlOut.daily[1].kind = "pnl"
    /\ engine.report_fault = "none" /\ engine.deal_fault = "none"
    /\ Len(engine.reports) = 1
    /\ engine.reports[1].present_equity = 1050000
    /\ engine.deals = << [Login |-> 1, Action |-> 2, Profit |-> 50000, Comment |-> <<"D", "T">>],
                         [Login |-> 1, Action |-> 3, Profit |-> 2000,
                          Comment |-> <<"R", "E", "B">>] >>
    /\ pnlOut.daily[1].pnl.equity_pnl = -2500
    /\ pnlOut.daily[1].pnl.net_pnl = -2500

C26_AllLoginsMatchPerLogin ==
    pnlOut.kind = "calculations" /\ pnlOut.all.kind = "list" =>
        \A i \in 1..Len(pnlOut.all.list) :
            LET a == pnlOut.all.list[i]
                d == pnlOut.daily[a.login]
            IN d.kind = "pnl" =>
                \A field \in {"present_equity", "equity_prev_day", "deposit", "withdrawal",
                              "net_deposit", "credit", "promotion", "net_credit_promotion",
                              "total_ib", "rebate", "equity_pnl", "net_pnl"} :
                    a[field] = d.pnl[field]

\* C27: the institution record has login 0 and group ALL, each of its
\* numeric fields is the sum of that field over the list it was made from,
\* an empty list gives the all-zero record, and its equity_pnl is the sum
\* of the equity_pnl that calculate_daily_pnl yields for the logins of the
\* list.
C27_InstitutionIsSum ==
    pnlOut.kind = "calculations" /\ pnlOut.institution.kind = "pnl" =>
        LET list == pnlOut.all.list
            a == pnlOut.institution.pnl
            Fields == {"present_equity", "equity_prev_day", "deposit", "withdrawal",
                       "net_deposit", "credit", "promotion", "net_credit_promotion",
                       "total_ib", "rebate", "equity_pnl", "net_pnl"}
            Over(part(_)) ==
                LET S[i \in 0..Len(list)] == IF i = 0 THEN 0 ELSE S[i - 1] + part(list[i])
                IN S[Len(list)]
        IN /\ a.login = 0
           /\ a.group = "ALL"
           /\ \A field \in Fields : a[field] = Over(LAMBDA p : p[field])
           /\ list = <<>> => \A field \in Fields : a[field] = 0
           /\ (\A i \in 1..Len(list) : pnlOut.daily[list[i].login].kind = "pnl") =>
                a.equity_pnl = Over(LAMBDA p : pnlOut.daily[p.login].pnl.equity_pnl)

\* C28: calculate_daily_pnl returns the not-found sentinel exactly when the
\* engine holds no report for the login and date; a daily-report or
\* deal-history request that fails is an error for the caller, never the
\* sentinel and never a record made from an empty list of deals.
C28_NotFoundOrError ==
    \A login \in Logins :
        pnlOut.kind = "calculations" /\ pnlOut.daily[login] # Pending =>
            LET d == pnlOut.daily[login]
                held == \E i \in 1..Len(engine.reports) :
                            /\ engine.reports[i].login = login
                            /\ engine.reports[i].date = TargetDate
            IN /\ engine.report_fault # "none" => d.kind = "error"
               /\ engine.report_fault = "none" => (d.kind = "none" <=> ~held)
               /\ (engine.report_fault = "none" /\ held /\ engine.deal_fault # "none")
                    => d.kind = "error"

\* C30: after any sequence and interleaving of create_or_update writes, the
\* scheduler job's and the on-demand sync's included, the table holds at
\* most one record per (day, login) key, and that record has the values of
\* the last write committed for the key.
C30_OneRecordPerKey ==
    \A key \in StoreKeys :
        pnlHist # <<>> =>
            /\ Cardinality({row \in daily_pnl : row.key = key}) <= 1
            /\ \A row \in daily_pnl : row.key = key => row.val = pnlHist[key]

\* C31: every record calculated has net_deposit = deposit - withdrawal,
\* whatever the signs of the amounts of the day's deals.
C31_NetDepositIsDifference ==
    \A login \in Logins :
        pnlOut.kind = "calculations" /\ pnlOut.daily[login].kind = "pnl" =>
            LET p == pnlOut.daily[login].pnl
            IN p.net_deposit = p.deposit - p.withdrawal

\* C38: a deal that get_deal_history returns with an empty tag has a credit
\* action, so in the accumulation it adds its amount to
\* net_credit_promotion and nothing to net_deposit.
C38_UntaggedIsCredit ==
    pnlOut.kind = "history" =>
        \A i \in 1..Len(pnlOut.deals) :
            LET deal == pnlOut.deals[i]
                b == add_deal(NoBuckets, deal)
            IN deal.tag = "" =>
                /\ deal.action \in {"CREDIT", "CREDIT_OUT"}
                /\ b.net_deposit = 0
                /\ b.net_credit_promotion = deal.amount

\* A credit deal without a comment has been returned, untagged.
C38_Witness ==
    /\ pnlOut.kind = "history"
    /\ engine.deals[1].Comment = <<>>
    /\ engine.deals[1].Action = 3
    /\ engine.deals[1].Profit = 3000
    /\ Len(pnlOut.deals) = 1
    /\ pnlOut.deals[1].tag = ""
    /\ pnlOut.deals[1].action = "CREDIT"

\* C35: a call that the open breaker refuses leaves the breaker as it was:
\* from one refused attempt of a call to its next refused attempt, and to
\* the end of a call refused throughout, failure_count and
\* last_failure_time keep their values.
C35_RefusalLeavesBreaker ==
    [][ ( /\ exHist.lastErr = "circuit_open"
          /\ exHist'.lastErr = "circuit_open"
          /\ exHist'.nops = exHist.nops
          /\ exHist.ops = 0 /\ exHist'.ops = 0 )
        => /\ sess'.circuit_breaker.failure_count = sess.circuit_breaker.failure_count
           /\ sess'.circuit_breaker.last_failure_time = sess.circuit_breaker.last_failure_time
      ]_vars

\* C36: a call of _execute_with_retry that has ended has recorded one
\* failure on the breaker for each of its failed attempts, whether the
\* attempt failed in connect() or in func.
C36_OneFailurePerFailedAttempt ==
    /\ call[RetryCaller].pc = "done" => exHist.recorded = exHist.attempts - 1
    /\ call[RetryCaller].pc = "failed" => exHist.recorded = exHist.attempts

\* C37: the end of one handler leaves the registry entries of the other
\* sockets alone, also when an evicted stream or a stream rejected for an
\* unknown account ends after a newer stream of the login has registered.
C37_EndKeepsOthersEntries ==
    [][ \A w \in Sockets :
          (ws[w].pc # "ended" /\ ws'[w].pc = "ended") =>
              \A login \in DOMAIN active_connections :
                  active_connections[login] # w =>
                      /\ login \in DOMAIN active_connections'
                      /\ active_connections'[login] = active_connections[login]
      ]_vars

\* C33: the status of a BalanceOperation record only moves from pending to
\* completed or from pending to failed; a record that is completed or
\* failed keeps its status under approve, complete, fail and reject.
C33_StatusMovesOnce ==
    [][ \A rec \in records : \A after \in records' :
          after.id = rec.id =>
              \/ after.status = rec.status
              \/ rec.status = "pending" /\ after.status \in {"completed", "failed"}
      ]_vars

\* C34: every committed record is completed and its request made exactly
\* one deal at the engine, for the record's login, type and amount; and
\* every deal of a request that has ended has a committed record.
C34_RecordsMatchDeals ==
    /\ \A rec \in records :
          rec.committed =>
              /\ rec.status = "completed"
              /\ Cardinality({d \in deals :
                                /\ d.sub = rec.sub
                                /\ d.deal = DealOf(rec.login, rec.type, rec.amount)}) = 1
    /\ \A d \in deals :
          (\A r \in Requests : req[r].sub = d.sub => req[r].pc \in {"done", "failed"}) =>
              \E rec \in records : rec.committed /\ rec.sub = d.sub

\* ------------------------------------------------------------------- C32
\* The logins the successful creations have returned are pairwise distinct
\* and each is an account of the engine.
ReturnedLoginsDistinct ==
    /\ \A i, j \in 1..Len(acctHist.returned) :
          i # j => acctHist.returned[i] # acctHist.returned[j]
    /\ \A i \in 1..Len(acctHist.returned) : acctHist.returned[i] \in users

\* A creation about to call UserAdd after a scan that found accounts asks
\* for the largest login of that scan plus one, and the scan was made in the
\* attempt that is running.
RequestsMaxPlusOne ==
    \A c \in Creators :
        acct[c].stage = "add" =>
            /\ acct[c].scan_attempt = acct[c].k.attempt
            /\ acct[c].all_users # {} => acct[c].login = max(acct[c].all_users) + 1

\* C32 as stated: create_account requests login max+1, max being the largest
\* login its scan found; every rejection of a login that a racing creation
\* took is followed by a retry with a fresh scan, so no creation ends without
\* a scan made after its last such rejection; and no two successful
\* creations return the same login.
C32_RejectedLoginIsRescanned ==
    /\ RequestsMaxPlusOne
    /\ ReturnedLoginsDistinct
    /\ \A c \in Creators :
          acct[c].pc \in {"done", "failed"} => ~acct[c].pending_taken

\* C32, amended: create_account requests login max+1, max being the largest
\* login its scan found; a rejection of a login in use on an attempt before
\* the last one is followed by the backoff sleep and a further attempt, which
\* scans again before it adds, while a rejection on the last attempt, or one
\* followed only by attempts that fail to connect, ends the creation with an
\* error and no login; and no two successful creations return the same login.
C32_RejectedLoginIsRetriedWithinBudget ==
    /\ RequestsMaxPlusOne
    /\ ReturnedLoginsDistinct
    /\ \A c \in Creators :
          /\ acct[c].pc = "done" => ~acct[c].pending_taken
          /\ acct[c].pending_taken =>
                \/ /\ acct[c].taken_at < MaxRetries - 1
                   /\ acct[c].k.attempt = acct[c].taken_at
                   /\ acct[c].k.pc = "sleep"
                \/ /\ acct[c].k.attempt > acct[c].taken_at
                   /\ \/ acct[c].k.pc \in {"waitlock", "connecting", "sleep", "failed"}
                      \/ acct[c].k.pc = "op" /\ acct[c].stage = "scan"
                \/ /\ acct[c].taken_at = MaxRetries - 1
                   /\ acct[c].k.pc = "failed"

\* Two creations raced for one login: one of them was rejected, scanned
\* again in a later attempt and returned the next login.
C32_Witness ==
    /\ Len(acctHist.returned) = 2
    /\ \E c \in Creators :
          /\ acct[c].pc = "done"
          /\ acct[c].taken = 1
          /\ acct[c].k.attempt = 1
          /\ acct[c].login = acctHist.returned[2]
          /\ acctHist.returned[2] = acctHist.returned[1] + 1

====
